---------------------------- MODULE Spec2Model ----------------------------
(***************************************************************************)
(* The wallet's chain follower (wallet/src/sync.rs): a sled database of    *)
(* four tables that synchronize() keeps in step with the chain a node      *)
(* reports over RPC.                                                       *)
(*                                                                         *)
(*   block_hashes   block number => block hash                             *)
(*   blocks         block hash   => block                                  *)
(*   unspent        output ref   => (owner_pubkey, amount)                 *)
(*   spent          output ref   => (owner_pubkey, amount)                 *)
(*                                                                         *)
(* synchronize() is modelled statement by statement: every sled operation  *)
(* is one step, every RPC await is one step at which the call can fail or  *)
(* be dropped.  The node's chain is a variable that the environment may    *)
(* change whenever synchronize is suspended at an RPC or is not running.   *)
(***************************************************************************)
EXTENDS Integers, Sequences, FiniteSets, TLC

(***************************************************************************)
(* Finite maps (sled trees).                                               *)
(***************************************************************************)
EmptyMap == [k \in {} |-> k]

Put(m, k, v) == [x \in (DOMAIN m) \cup {k} |-> IF x = k THEN v ELSE m[x]]

Del(m, k) == [x \in (DOMAIN m) \ {k} |-> m[x]]

Has(m, k) == k \in DOMAIN m

(***************************************************************************)
(* The chain data the node can serve.  A hash is a name; None is the       *)
(* absent Option.                                                          *)
(***************************************************************************)
None == "None"

Ref(h, i) == [tx_hash |-> h, index |-> i]

SigCheck(pk) == [kind |-> "SigCheck", owner_pubkey |-> pk]

UpForGrabs == [kind |-> "UpForGrabs", owner_pubkey |-> None]

Coin0(n) == [type_id |-> "coi0", amount |-> n]

OtherPayload == [type_id |-> "dap0", amount |-> 0]

Out(v, p) == [verifier |-> v, payload |-> p]

Tx(ins, outs) == [inputs |-> ins, outputs |-> outs]

\* The transactions of the modelled chains, by transaction hash.
TxTable ==
    [h \in {"tg", "t1", "t2", "t3", "t4", "t5", "t6"} |->
       CASE h = "tg" -> Tx(<< >>, << Out(SigCheck("alice"), Coin0(9)) >>)
         [] h = "t1" -> Tx(<< >>, << Out(SigCheck("bob"), Coin0(4)),
                                     Out(SigCheck("alice"), Coin0(5)) >>)
         [] h = "t2" -> Tx(<< Ref("t1", 1) >>,
                           << Out(SigCheck("alice"), OtherPayload),
                              Out(SigCheck("alice"), Coin0(2)) >>)
         [] h = "t3" -> Tx(<< Ref("t1", 0), Ref("tg", 0) >>,
                           << Out(SigCheck("bob"), Coin0(3)) >>)
         [] h = "t4" -> Tx(<< Ref("t6", 0) >>,
                           << Out(SigCheck("alice"), Coin0(7)),
                              Out(UpForGrabs, Coin0(8)) >>)
         [] h = "t5" -> Tx(<< >>, << Out(SigCheck("alice"), Coin0(6)) >>)
         [] h = "t6" -> Tx(<< Ref("t5", 0) >>,
                           << Out(SigCheck("alice"), Coin0(1)),
                              Out(SigCheck("bob"), Coin0(10)) >>)]

\* BlakeTwo256::hash_of(&tx.encode()): a function of the transaction's content.
hash_of(tx) == CHOOSE h \in DOMAIN TxTable : TxTable[h] = tx

Block(n, parent, hs) ==
    [number |-> n, parent_hash |-> parent,
     extrinsics |-> [i \in 1..Len(hs) |-> TxTable[hs[i]]]]

NoBlock == Block(0, None, << >>)

\* The blocks the node knows, by block hash: two branches on genesis "G" and
\* a chain with another genesis, "H".
BlockTable ==
    [h \in {"G", "A1", "A2", "B1", "B2", "H"} |->
       CASE h = "G"  -> Block(0, None, << "tg" >>)
         [] h = "A1" -> Block(1, "G", << "t1" >>)
         [] h = "A2" -> Block(2, "A1", << "t2", "t3" >>)
         [] h = "B1" -> Block(1, "G", << "t5", "t6" >>)
         [] h = "B2" -> Block(2, "B1", << "t1", "t4" >>)
         [] h = "H"  -> Block(0, None, << >>)]

Branches == { << "G", "A1", "A2" >>, << "G", "B1", "B2" >>, << "H" >> }

\* Every chain the node may report as its best chain.
Chains == UNION { { SubSeq(b, 1, n) : n \in 1..Len(b) } : b \in Branches }

Genesis == { "G", "H" }

\* The filters a caller may pass: the keystore's keys only, or also
\* anyone-can-spend outputs.
Filters == { "keys", "any" }

VARIABLES
    block_hashes, blocks, unspent, spent,   \* the four sled trees
    pc, result,                             \* synchronize: position, last return
    l,                                      \* synchronize: local variables
    node, filter,                           \* the node's best chain; the caller's filter
    gh,                                     \* history of the running call
    observed,                               \* what a reader returned in the step just taken
    call,                                   \* a library call: its arguments and its return
    engine                                  \* the Executive: its UTXO set and its last verdict

vars == << block_hashes, blocks, unspent, spent, pc, result, l, node, filter,
           gh, observed, call, engine >>

db == << block_hashes, blocks, unspent, spent >>


(***************************************************************************)
(* The RPC interface of the node (crate::rpc).                             *)
(***************************************************************************)
\* rpc::node_get_block_hash(height, client): the hash at a height of the
\* node's best chain, None above its tip.
node_get_block_hash(chain, h) ==
    IF h >= 0 /\ h < Len(chain) THEN chain[h + 1] ELSE None

\* rpc::node_get_block(hash, client): the node keeps the blocks of every fork.
node_get_block(h) == BlockTable[h]

(***************************************************************************)
(* The caller's filter and the payload decoding.                           *)
(***************************************************************************)
\* filter(&o.verifier): which outputs the wallet indexes as its own.
Filter(f, v) ==
    \/ v = SigCheck("alice")
    \/ f = "any" /\ v.kind = "UpForGrabs"

\* output.payload.extract::<Coin<0>>() is Ok.
IsCoin0(p) == p.type_id = "coi0"

(***************************************************************************)
(* Single sled operations of sync.rs, on table values.                     *)
(***************************************************************************)
\* height(db): None is -1.
height(bh) ==
    LET num_blocks == Cardinality(DOMAIN bh)
    IN  IF num_blocks = 0 THEN -1 ELSE num_blocks - 1

get_block_hash(bh, h) == IF Has(bh, h) THEN bh[h] ELSE None

add_unspent_output(u, output_ref, owner_pubkey, amount) ==
    Put(u, output_ref, [owner |-> owner_pubkey, amount |-> amount])

\* remove_unspent_output that removes nothing.
remove_unspent_output_kept(u, output_ref) == u

remove_unspent_output(u, output_ref) == Del(u, output_ref)

\* spend_output that leaves the record in unspent.
spend_remove_kept(u, output_ref) == u

\* spend_output, first half: unspent_tree.remove(output_ref)
spend_remove(u, output_ref) == Del(u, output_ref)

\* spend_output whose second half is left out.
spend_insert_dropped(s, output_ref, ivec) == s

\* spend_output, second half: spent_tree.insert(output_ref, (owner, amount))
spend_insert(s, output_ref, ivec) ==
    Put(s, output_ref, [owner |-> ivec.owner, amount |-> ivec.amount])

\* unspend_output, first half: spent_tree.remove(output_ref)
unspend_remove(s, output_ref) == Del(s, output_ref)

\* unspend_output whose second half is left out.
unspend_insert_dropped(u, output_ref, ivec) == u

\* unspend_output, second half: unspent_tree.insert(output_ref, (owner, amount))
unspend_insert(u, output_ref, ivec) ==
    Put(u, output_ref, [owner |-> ivec.owner, amount |-> ivec.amount])

(***************************************************************************)
(* One turn of the output loop of apply_transaction on the output at       *)
(* position oi (1-based) of tx.outputs; fi is the counter of enumerate(),  *)
(* which runs behind filter().  It yields the unspent table, the counter   *)
(* and whether the turn returned Err.                                      *)
(***************************************************************************)
OutputStep(u, tx, f, oi, fi) ==
    LET output == tx.outputs[oi]
        output_ref == Ref(hash_of(tx), fi)
    IN  IF ~Filter(f, output.verifier)
          THEN [unspent |-> u, fi |-> fi, err |-> FALSE]
        ELSE IF ~IsCoin0(output.payload)
          THEN [unspent |-> u, fi |-> fi + 1, err |-> FALSE]
        ELSE IF output.verifier.kind = "SigCheck"
          THEN [unspent |-> add_unspent_output(u, output_ref,
                                output.verifier.owner_pubkey,
                                output.payload.amount),
                fi |-> fi + 1, err |-> FALSE]
        ELSE [unspent |-> u, fi |-> fi + 1, err |-> TRUE]

(***************************************************************************)
(* The functions of sync.rs as functions of the database value             *)
(* D = [block_hashes, blocks, unspent, spent].                             *)
(***************************************************************************)
EmptyDb == [block_hashes |-> EmptyMap, blocks |-> EmptyMap,
            unspent |-> EmptyMap, spent |-> EmptyMap]

spend_output(D, output_ref) ==
    IF Has(D.unspent, output_ref)
      THEN [D EXCEPT !.unspent = spend_remove(D.unspent, output_ref),
                     !.spent = spend_insert(D.spent, output_ref,
                                            D.unspent[output_ref])]
      ELSE D

unspend_output(D, output_ref) ==
    IF Has(D.spent, output_ref)
      THEN [D EXCEPT !.spent = unspend_remove(D.spent, output_ref),
                     !.unspent = unspend_insert(D.unspent, output_ref,
                                                D.spent[output_ref])]
      ELSE D

RECURSIVE InsertOutputs(_, _, _, _, _)
InsertOutputs(u, tx, f, oi, fi) ==
    IF oi > Len(tx.outputs) THEN [unspent |-> u, err |-> FALSE]
    ELSE LET r == OutputStep(u, tx, f, oi, fi)
         IN  IF r.err THEN [unspent |-> r.unspent, err |-> TRUE]
             ELSE InsertOutputs(r.unspent, tx, f, oi + 1, r.fi)

RECURSIVE SpendInputs(_, _, _)
SpendInputs(D, inputs, ii) ==
    IF ii > Len(inputs) THEN D
    ELSE SpendInputs(spend_output(D, inputs[ii]), inputs, ii + 1)

apply_transaction(D, tx, f) ==
    LET o == InsertOutputs(D.unspent, tx, f, 1, 0)
        D1 == [D EXCEPT !.unspent = o.unspent]
    IN  IF o.err THEN [db |-> D1, err |-> TRUE]
        ELSE [db |-> SpendInputs(D1, tx.inputs, 1), err |-> FALSE]

RECURSIVE ApplyExtrinsics(_, _, _, _)
ApplyExtrinsics(D, extrinsics, ti, f) ==
    IF ti > Len(extrinsics) THEN [db |-> D, err |-> FALSE]
    ELSE LET r == apply_transaction(D, extrinsics[ti], f)
         IN  IF r.err THEN r
             ELSE ApplyExtrinsics(r.db, extrinsics, ti + 1, f)

apply_block(D, b, block_hash, f) ==
    LET D1 == [D EXCEPT !.block_hashes = Put(@, b.number, block_hash),
                        !.blocks = Put(@, block_hash, b)]
    IN  ApplyExtrinsics(D1, b.extrinsics, 1, f)

RECURSIVE UnspendInputs(_, _, _)
UnspendInputs(D, inputs, ii) ==
    IF ii > Len(inputs) THEN D
    ELSE UnspendInputs(unspend_output(D, inputs[ii]), inputs, ii + 1)

RECURSIVE RemoveOutputs(_, _, _)
RemoveOutputs(u, tx, i) ==
    IF i >= Len(tx.outputs) THEN u
    ELSE RemoveOutputs(remove_unspent_output(u, Ref(hash_of(tx), i)), tx, i + 1)

unapply_transaction(D, tx) ==
    LET D1 == UnspendInputs(D, tx.inputs, 1)
    IN  [D1 EXCEPT !.unspent = RemoveOutputs(@, tx, 0)]

RECURSIVE UnapplyExtrinsics(_, _, _)
UnapplyExtrinsics(D, extrinsics, ti) ==
    IF ti < 1 THEN D
    ELSE UnapplyExtrinsics(unapply_transaction(D, extrinsics[ti]),
                           extrinsics, ti - 1)

unapply_highest_block(D) ==
    LET h == height(D.block_hashes)
    IN  IF ~Has(D.block_hashes, h) THEN [db |-> D, err |-> TRUE]
        ELSE LET hash == D.block_hashes[h]
                 D1 == [D EXCEPT !.block_hashes = Del(@, h)]
             IN  IF ~Has(D1.blocks, hash) THEN [db |-> D1, err |-> TRUE]
                 ELSE LET block == D1.blocks[hash]
                          D2 == [D1 EXCEPT !.blocks = Del(@, hash)]
                      IN  [db |-> UnapplyExtrinsics(D2, block.extrinsics,
                                                    Len(block.extrinsics)),
                           err |-> FALSE]

\* open_db that indexes the genesis block as apply_block would, with the
\* keystore's filter.
open_db_indexing_genesis(D, expected_genesis_hash, expected_genesis_block) ==
    IF height(D.block_hashes) # -1
      THEN [db |-> D, err |-> expected_genesis_hash # D.block_hashes[0]]
      ELSE [db |-> apply_block(D, expected_genesis_block,
                               expected_genesis_hash, "keys").db,
            err |-> FALSE]

\* open_db without the comparison of the stored genesis hash.
open_db_any_genesis(D, expected_genesis_hash, expected_genesis_block) ==
    IF height(D.block_hashes) # -1
      THEN [db |-> D, err |-> FALSE]
      ELSE [db |-> [D EXCEPT
                      !.block_hashes = Put(@, 0, expected_genesis_hash),
                      !.blocks = Put(@, expected_genesis_hash,
                                     expected_genesis_block)],
            err |-> FALSE]

open_db(D, expected_genesis_hash, expected_genesis_block) ==
    IF height(D.block_hashes) # -1
      THEN [db |-> D, err |-> expected_genesis_hash # D.block_hashes[0]]
      ELSE [db |-> [D EXCEPT
                      !.block_hashes = Put(@, 0, expected_genesis_hash),
                      !.blocks = Put(@, expected_genesis_hash,
                                     expected_genesis_block)],
            err |-> FALSE]

(***************************************************************************)
(* synchronize() run to its return against a node whose chain does not     *)
(* change, as a function: the database it leaves and how it returns.       *)
(***************************************************************************)
RECURSIVE RollBack(_, _, _)
RollBack(D, h, chain) ==
    LET wallet_hash == get_block_hash(D.block_hashes, h)
    IN  IF wallet_hash = None THEN [db |-> D, height |-> h, result |-> "panic"]
        ELSE IF wallet_hash = node_get_block_hash(chain, h)
          THEN [db |-> D, height |-> h, result |-> "ok"]
        ELSE LET r == unapply_highest_block(D)
             IN  IF r.err THEN [db |-> r.db, height |-> h, result |-> "err"]
                 ELSE IF h = 0
                   THEN [db |-> r.db, height |-> h, result |-> "panic"]
                 ELSE RollBack(r.db, h - 1, chain)

RECURSIVE Forward(_, _, _, _)
Forward(D, h, chain, f) ==
    LET node_hash == node_get_block_hash(chain, h)
    IN  IF node_hash = None THEN [db |-> D, result |-> "ok"]
        ELSE LET r == apply_block(D, node_get_block(node_hash), node_hash, f)
             IN  IF r.err THEN [db |-> r.db, result |-> "err"]
                 ELSE Forward(r.db, h + 1, chain, f)

synchronize(D, chain, f) ==
    IF height(D.block_hashes) = -1 THEN [db |-> D, result |-> "err"]
    ELSE LET back == RollBack(D, height(D.block_hashes), chain)
         IN  IF back.result # "ok"
               THEN [db |-> back.db, result |-> back.result]
             ELSE Forward(back.db, back.height + 1, chain, f)

\* synchronize() called again until it returns Ok (at most once per block).
RECURSIVE SyncUntilOk(_, _, _, _)
SyncUntilOk(D, chain, f, n) ==
    LET r == synchronize(D, chain, f)
    IN  IF r.result = "ok" \/ n = 0 THEN r.db
        ELSE SyncUntilOk(r.db, chain, f, n - 1)

\* The index a fresh database reaches by following `chain` from its genesis.
Fresh(chain, f) ==
    SyncUntilOk(open_db(EmptyDb, chain[1], node_get_block(chain[1])).db,
                chain, f, Len(chain))

(***************************************************************************)
(* The state machine.                                                      *)
(***************************************************************************)
NoIvec == [owner |-> None, amount |-> 0]

\* synchronize's local variables before they are set.
NoLocals ==
    [height |-> 0, wallet_hash |-> None, node_hash |-> None,
     hash |-> None, block |-> NoBlock,
     ti |-> 0, oi |-> 0, fi |-> 0, ii |-> 0, ivec |-> NoIvec]

NoTables == [unspent |-> EmptyMap, spent |-> EmptyMap]

NoApplied == [hash |-> None, unspent |-> EmptyMap, spent |-> EmptyMap]

\* History kept beside the program state:
\*   stable      the node's chain has not changed since the call began
\*   allOk       every open_db and synchronize call before this one
\*               returned Ok
\*   start       the database when the call began
\*   startClean  the call began on the index of a fresh follower of the
\*               local chain
\*   rolled      the call has rolled a block back
\*   op, pre     the block operation in progress and the database before it
\*   applied     the last block apply_block applied with Ok: its hash and
\*               the tables before it, until the next block operation
\*   txpre       the tables before the transaction being applied
\*   opened      the genesis hash the last open_db call expected
\*   partial     heights whose apply_block returned Err and stays stored
\*   back, fwd   the turns of the rollback loop and of the forward loop that
\*               the call has completed
\*   agreed      the height at which the rollback loop ended, -1 before
\*   again       the call follows a synchronize call that returned Ok, and
\*               the node's chain is the one that call began with
NoHistory ==
    [stable |-> TRUE, allOk |-> TRUE, start |-> EmptyDb,
     startClean |-> FALSE,
     rolled |-> FALSE,
     op |-> "none", pre |-> EmptyDb, applied |-> NoApplied,
     txpre |-> NoTables, opened |-> None, partial |-> {}, again |-> FALSE,
     back |-> 0, fwd |-> 0, agreed |-> -1]

\* No library call has been made.
NoCall == [fn |-> "none"]

\* The Executive before its first block: no output exists.
NoEngine ==
    [utxo |-> EmptyMap, number |-> 0, verdict |-> "none", pre |-> EmptyMap,
     body |-> << >>, consumed |-> << >>, inserted |-> << >>]

\* A read: the unspent table it saw, and whether that table is the table at
\* a block boundary.
NoObservation == [read |-> FALSE, unspent |-> EmptyMap, boundary |-> TRUE]

Cur == [block_hashes |-> block_hashes, blocks |-> blocks,
        unspent |-> unspent, spent |-> spent]

\* The local chain as a sequence of hashes (heights 0..height).
LocalChain == [i \in 1..(height(block_hashes) + 1) |->
                 get_block_hash(block_hashes, i - 1)]

\* The local chain is one branch: every block sits on its parent.
IsBranch(c) ==
    /\ \A i \in 1..Len(c) : c[i] \in DOMAIN BlockTable
    /\ \A i \in 2..Len(c) : BlockTable[c[i]].parent_hash = c[i - 1]

\* The transaction apply_transaction / unapply_transaction is working on.
CurTx == l.block.extrinsics[l.ti]

\* The positions at which synchronize is suspended in an RPC.
RpcPcs == { "rpc_hash_rb", "rpc_hash_fwd", "rpc_block" }

Init ==
    /\ block_hashes = EmptyMap
    /\ blocks = EmptyMap
    /\ unspent = EmptyMap
    /\ spent = EmptyMap
    /\ pc = "idle"
    /\ result = "none"
    /\ l = NoLocals
    /\ node \in Chains
    /\ filter \in Filters
    /\ gh = NoHistory
    /\ observed = NoObservation
    /\ call = NoCall
    /\ engine = NoEngine

\* The results that are not failures ("none": nothing was called yet).
OkResults == { "none", "ok", "open_ok" }

\* synchronize returns: its locals are dropped.
Return(r) ==
    /\ pc' = "idle"
    /\ result' = r
    /\ l' = NoLocals

(***************************************************************************)
(* The environment: the node's best chain grows, shrinks or switches       *)
(* branch.  synchronize reads it only in its RPCs, so a change is taken    *)
(* when synchronize is suspended in one or is not running.  A node keeps   *)
(* its genesis; between calls the caller may pass a client of a node of    *)
(* another network.                                                        *)
(***************************************************************************)
NodeReorg ==
    /\ pc \in RpcPcs \cup { "idle" }
    /\ \E c \in Chains \ { node } :
         /\ pc # "idle" => c[1] = node[1]
         /\ node' = c
    /\ gh' = [gh EXCEPT !.stable = FALSE]
    /\ UNCHANGED << db, pc, result, l, filter >>
    /\ observed' = NoObservation
    /\ UNCHANGED << call, engine >>

\* Any RPC may fail, or the future may be dropped while it is pending.
RpcFail ==
    /\ pc \in RpcPcs
    /\ Return("err_rpc")
    /\ UNCHANGED << db, node, filter, gh >>
    /\ observed' = NoObservation
    /\ UNCHANGED << call, engine >>

(***************************************************************************)
(* open_db                                                                 *)
(***************************************************************************)
OpenDb ==
    /\ pc = "idle"
    /\ \E g \in Genesis :
         LET r == open_db(Cur, g, node_get_block(g))
         IN  /\ block_hashes' = r.db.block_hashes
             /\ blocks' = r.db.blocks
             /\ unspent' = r.db.unspent
             /\ spent' = r.db.spent
             /\ result' = IF r.err THEN "open_err" ELSE "open_ok"
             /\ gh' = [gh EXCEPT !.allOk = @ /\ result \in OkResults,
                                 !.opened = g]
    /\ UNCHANGED << pc, l, node, filter >>
    /\ observed' = NoObservation
    /\ UNCHANGED << call, engine >>

(***************************************************************************)
(* synchronize: the rollback loop                                          *)
(***************************************************************************)
SyncStart ==
    /\ pc = "idle"
    /\ LET h == height(block_hashes)
       IN  IF h = -1
             THEN /\ Return("err_uninit")
                  /\ gh' = [gh EXCEPT !.stable = TRUE, !.startClean = FALSE,
                                      !.again = FALSE,
                                      !.back = 0, !.fwd = 0, !.agreed = -1,
                                      !.allOk = FALSE, !.start = Cur,
                                      !.rolled = FALSE, !.op = "none",
                                      !.pre = EmptyDb, !.txpre = NoTables]
           ELSE IF get_block_hash(block_hashes, h) = None
             THEN /\ Return("panic")
                  /\ UNCHANGED gh
           ELSE /\ pc' = "rpc_hash_rb"
                /\ result' = "running"
                /\ l' = [NoLocals EXCEPT
                           !.height = h,
                           !.wallet_hash = get_block_hash(block_hashes, h)]
                /\ gh' = [gh EXCEPT
                            !.stable = TRUE,
                            !.again = result = "ok" /\ gh.stable,
                            !.back = 0, !.fwd = 0, !.agreed = -1,
                            !.allOk = @ /\ result \in OkResults,
                            !.start = Cur,
                            !.startClean = /\ IsBranch(LocalChain)
                                           /\ Cur = Fresh(LocalChain, filter),
                            !.rolled = FALSE, !.op = "none",
                            !.pre = EmptyDb, !.txpre = NoTables]
    /\ UNCHANGED << db, node, filter >>
    /\ observed' = NoObservation
    /\ UNCHANGED << call, engine >>

RpcHashRb ==
    /\ pc = "rpc_hash_rb"
    /\ l' = [l EXCEPT !.node_hash = node_get_block_hash(node, l.height)]
    /\ pc' = "rb_test"
    /\ UNCHANGED << db, result, node, filter, gh >>
    /\ observed' = NoObservation
    /\ UNCHANGED << call, engine >>

\* The end of the rollback loop without `height += 1`.
RbTest_same_height ==
    /\ pc = "rb_test"
    /\ IF l.wallet_hash # l.node_hash
         THEN /\ pc' = "un_hashes"
              /\ l' = l
              /\ gh' = [gh EXCEPT !.op = "unapply", !.pre = Cur]
         ELSE /\ pc' = "rpc_hash_fwd"
              /\ l' = l
              /\ gh' = [gh EXCEPT !.agreed = l.height]
    /\ UNCHANGED << db, result, node, filter >>
    /\ observed' = NoObservation
    /\ UNCHANGED << call, engine >>

\* while Some(wallet_hash) != node_hash { unapply_highest_block ... }
\* height += 1; node_hash = rpc(height)
RbTest ==
    /\ pc = "rb_test"
    /\ IF l.wallet_hash # l.node_hash
         THEN /\ pc' = "un_hashes"
              /\ l' = l
              /\ gh' = [gh EXCEPT !.op = "unapply", !.pre = Cur]
         ELSE /\ pc' = "rpc_hash_fwd"
              /\ l' = [l EXCEPT !.height = @ + 1]
              /\ gh' = [gh EXCEPT !.agreed = l.height]
    /\ UNCHANGED << db, result, node, filter >>
    /\ observed' = NoObservation
    /\ UNCHANGED << call, engine >>

\* unapply_highest_block: take the hash from block_hashes
UnHashes ==
    /\ pc = "un_hashes"
    /\ LET h == height(block_hashes)
       IN  IF ~Has(block_hashes, h)
             THEN /\ Return("err_unapply")
                  /\ UNCHANGED block_hashes
             ELSE /\ block_hashes' = Del(block_hashes, h)
                  /\ l' = [l EXCEPT !.hash = block_hashes[h]]
                  /\ pc' = "un_blocks"
                  /\ UNCHANGED result
    /\ UNCHANGED << blocks, unspent, spent, node, filter, gh >>
    /\ observed' = NoObservation
    /\ UNCHANGED << call, engine >>

\* unapply_highest_block reading the block and leaving it in blocks.
UnBlocks_kept ==
    /\ pc = "un_blocks"
    /\ IF ~Has(blocks, l.hash)
         THEN Return("err_unapply")
         ELSE /\ l' = [l EXCEPT !.block = blocks[l.hash],
                                !.ti = Len(blocks[l.hash].extrinsics)]
              /\ pc' = "un_tx"
              /\ UNCHANGED result
    /\ UNCHANGED << block_hashes, blocks, unspent, spent, node, filter, gh >>
    /\ observed' = NoObservation
    /\ UNCHANGED << call, engine >>

\* unapply_highest_block: take the block from blocks
UnBlocks ==
    /\ pc = "un_blocks"
    /\ IF ~Has(blocks, l.hash)
         THEN /\ Return("err_unapply")
              /\ UNCHANGED blocks
         ELSE /\ blocks' = Del(blocks, l.hash)
              /\ l' = [l EXCEPT !.block = blocks[l.hash],
                                !.ti = Len(blocks[l.hash].extrinsics)]
              /\ pc' = "un_tx"
              /\ UNCHANGED result
    /\ UNCHANGED << block_hashes, unspent, spent, node, filter, gh >>
    /\ observed' = NoObservation
    /\ UNCHANGED << call, engine >>

\* for tx in block.extrinsics.iter().rev()
UnTx ==
    /\ pc = "un_tx"
    /\ IF l.ti < 1
         THEN /\ pc' = "rb_dec"
              /\ l' = l
         ELSE /\ pc' = "un_in"
              /\ l' = [l EXCEPT !.ii = 1]
    /\ UNCHANGED << db, result, node, filter, gh >>
    /\ observed' = NoObservation
    /\ UNCHANGED << call, engine >>

\* unapply_transaction: unspend_output of the next input, its first half
UnIn ==
    /\ pc = "un_in"
    /\ IF l.ii > Len(CurTx.inputs)
         THEN /\ pc' = "un_out"
              /\ l' = [l EXCEPT !.oi = 0]
              /\ UNCHANGED spent
         ELSE LET output_ref == CurTx.inputs[l.ii]
              IN  IF Has(spent, output_ref)
                    THEN /\ spent' = unspend_remove(spent, output_ref)
                         /\ l' = [l EXCEPT !.ivec = spent[output_ref]]
                         /\ pc' = "un_in_ins"
                    ELSE /\ l' = [l EXCEPT !.ii = @ + 1]
                         /\ UNCHANGED << spent, pc >>
    /\ UNCHANGED << block_hashes, blocks, unspent, result, node, filter, gh >>
    /\ observed' = NoObservation
    /\ UNCHANGED << call, engine >>

\* unspend_output, second half
UnInIns ==
    /\ pc = "un_in_ins"
    /\ unspent' = unspend_insert(unspent, CurTx.inputs[l.ii], l.ivec)
    /\ l' = [l EXCEPT !.ii = @ + 1, !.ivec = NoIvec]
    /\ pc' = "un_in"
    /\ UNCHANGED << block_hashes, blocks, spent, result, node, filter, gh >>
    /\ observed' = NoObservation
    /\ UNCHANGED << call, engine >>

\* unapply_transaction: for i in 0..tx.outputs.len() remove_unspent_output
UnOut ==
    /\ pc = "un_out"
    /\ IF l.oi >= Len(CurTx.outputs)
         THEN /\ pc' = "un_tx"
              /\ l' = [l EXCEPT !.ti = @ - 1]
              /\ UNCHANGED unspent
         ELSE /\ unspent' = remove_unspent_output(unspent,
                                                  Ref(hash_of(CurTx), l.oi))
              /\ l' = [l EXCEPT !.oi = @ + 1]
              /\ UNCHANGED pc
    /\ UNCHANGED << block_hashes, blocks, spent, result, node, filter, gh >>
    /\ observed' = NoObservation
    /\ UNCHANGED << call, engine >>

\* The two builds of `height -= 1` on a u32: with overflow checks it panics
\* at 0, without them it wraps to the largest value.  The model's integers
\* are narrower than a u32, so the modulus is scaled down; the wrapped value
\* only has to lie above every stored height, as u32::MAX does.
Builds == { "overflow-checks", "wrapping" }

HeightModulus == 2 ^ 30

\* unapply_highest_block has returned Ok:
\* height -= 1; wallet_hash = get_block_hash(db, height).expect(..)
RbDec ==
    /\ pc = "rb_dec"
    /\ \E build \in Builds :
         LET h == IF build = "wrapping" THEN (l.height - 1) % HeightModulus
                  ELSE l.height - 1
         IN  IF h < 0 \/ get_block_hash(block_hashes, h) = None
               THEN Return("panic")
               ELSE /\ l' = [l EXCEPT
                               !.height = h,
                               !.wallet_hash = get_block_hash(block_hashes, h),
                               !.hash = None, !.block = NoBlock]
                    /\ pc' = "rpc_hash_rb"
                    /\ UNCHANGED result
    /\ gh' = [gh EXCEPT !.rolled = TRUE, !.back = @ + 1,
                        !.op = "none", !.pre = EmptyDb,
                        !.applied = NoApplied,
                        !.partial = @ \ { l.block.number }]
    /\ UNCHANGED << db, node, filter >>
    /\ observed' = NoObservation
    /\ UNCHANGED << call, engine >>

\* The forward loop asking the node for the height below.
RpcHashFwd_below ==
    /\ pc = "rpc_hash_fwd"
    /\ LET node_hash == node_get_block_hash(node, l.height - 1)
       IN  IF node_hash = None
             THEN Return("ok")
             ELSE /\ l' = [l EXCEPT !.node_hash = node_hash]
                  /\ pc' = "rpc_block"
                  /\ UNCHANGED result
    /\ UNCHANGED << db, node, filter, gh >>
    /\ observed' = NoObservation
    /\ UNCHANGED << call, engine >>

(***************************************************************************)
(* synchronize: the forward loop                                           *)
(***************************************************************************)
\* node_hash = rpc::node_get_block_hash(height); while let Some(hash) = ..
RpcHashFwd ==
    /\ pc = "rpc_hash_fwd"
    /\ LET node_hash == node_get_block_hash(node, l.height)
       IN  IF node_hash = None
             THEN Return("ok")
             ELSE /\ l' = [l EXCEPT !.node_hash = node_hash]
                  /\ pc' = "rpc_block"
                  /\ UNCHANGED result
    /\ UNCHANGED << db, node, filter, gh >>
    /\ observed' = NoObservation
    /\ UNCHANGED << call, engine >>

\* block = rpc::node_get_block(hash).expect(..); apply_block(db, block, hash, ..)
RpcBlock ==
    /\ pc = "rpc_block"
    /\ l' = [l EXCEPT !.block = node_get_block(l.node_hash),
                      !.hash = l.node_hash]
    /\ pc' = "ap_hashes"
    /\ gh' = [gh EXCEPT !.op = "apply", !.pre = Cur, !.applied = NoApplied]
    /\ UNCHANGED << db, result, node, filter >>
    /\ observed' = NoObservation
    /\ UNCHANGED << call, engine >>

\* apply_block: write the hash to block_hashes
ApHashes ==
    /\ pc = "ap_hashes"
    /\ block_hashes' = Put(block_hashes, l.block.number, l.hash)
    /\ pc' = "ap_blocks"
    /\ UNCHANGED << blocks, unspent, spent, result, l, node, filter, gh >>
    /\ observed' = NoObservation
    /\ UNCHANGED << call, engine >>

\* apply_block: write the block to blocks
ApBlocks ==
    /\ pc = "ap_blocks"
    /\ blocks' = Put(blocks, l.hash, l.block)
    /\ l' = [l EXCEPT !.ti = 1]
    /\ pc' = "ap_tx"
    /\ UNCHANGED << block_hashes, unspent, spent, result, node, filter, gh >>
    /\ observed' = NoObservation
    /\ UNCHANGED << call, engine >>

\* for tx in b.extrinsics { apply_transaction }; then height += 1
ApTx ==
    /\ pc = "ap_tx"
    /\ IF l.ti > Len(l.block.extrinsics)
         THEN /\ pc' = "rpc_hash_fwd"
              /\ l' = [l EXCEPT !.height = @ + 1, !.hash = None,
                                !.block = NoBlock, !.ti = 0, !.oi = 0,
                                !.fi = 0, !.ii = 0]
              /\ gh' = [gh EXCEPT !.op = "none", !.pre = EmptyDb,
                                  !.fwd = @ + 1,
                                  !.txpre = NoTables,
                                  !.applied = [hash |-> l.hash,
                                               unspent |-> gh.pre.unspent,
                                               spent |-> gh.pre.spent]]
         ELSE /\ pc' = "tx_out"
              /\ l' = [l EXCEPT !.oi = 1, !.fi = 0]
              /\ gh' = [gh EXCEPT !.txpre = [unspent |-> unspent,
                                             spent |-> spent]]
    /\ UNCHANGED << db, result, node, filter >>
    /\ observed' = NoObservation
    /\ UNCHANGED << call, engine >>

\* apply_transaction: one turn of the loop over the filtered outputs
TxOut ==
    /\ pc = "tx_out"
    /\ IF l.oi > Len(CurTx.outputs)
         THEN /\ pc' = "tx_in"
              /\ l' = [l EXCEPT !.ii = 1]
              /\ UNCHANGED unspent
         ELSE LET r == OutputStep(unspent, CurTx, filter, l.oi, l.fi)
              IN  IF r.err
                    THEN /\ pc' = "ap_err"
                         /\ UNCHANGED << unspent, l >>
                    ELSE /\ unspent' = r.unspent
                         /\ l' = [l EXCEPT !.oi = @ + 1, !.fi = r.fi]
                         /\ UNCHANGED pc
    /\ UNCHANGED << block_hashes, blocks, spent, result, node, filter, gh >>
    /\ observed' = NoObservation
    /\ UNCHANGED << call, engine >>

\* `_ => return Err(..)` leaves apply_transaction, apply_block and
\* synchronize through `?`.
ApErr ==
    /\ pc = "ap_err"
    /\ Return("err_apply")
    /\ gh' = [gh EXCEPT !.partial = @ \cup { l.block.number }]
    /\ UNCHANGED << db, node, filter >>
    /\ observed' = NoObservation
    /\ UNCHANGED << call, engine >>

\* apply_transaction: spend_output of the next input, its first half
TxIn ==
    /\ pc = "tx_in"
    /\ IF l.ii > Len(CurTx.inputs)
         THEN /\ pc' = "ap_tx"
              /\ l' = [l EXCEPT !.ti = @ + 1]
              /\ UNCHANGED unspent
         ELSE LET output_ref == CurTx.inputs[l.ii]
              IN  IF Has(unspent, output_ref)
                    THEN /\ unspent' = spend_remove(unspent, output_ref)
                         /\ l' = [l EXCEPT !.ivec = unspent[output_ref]]
                         /\ pc' = "tx_in_ins"
                    ELSE /\ l' = [l EXCEPT !.ii = @ + 1]
                         /\ UNCHANGED << unspent, pc >>
    /\ UNCHANGED << block_hashes, blocks, spent, result, node, filter, gh >>
    /\ observed' = NoObservation
    /\ UNCHANGED << call, engine >>

\* spend_output, second half
TxInIns ==
    /\ pc = "tx_in_ins"
    /\ spent' = spend_insert(spent, CurTx.inputs[l.ii], l.ivec)
    /\ l' = [l EXCEPT !.ii = @ + 1, !.ivec = NoIvec]
    /\ pc' = "tx_in"
    /\ UNCHANGED << block_hashes, blocks, unspent, result, node, filter, gh >>
    /\ observed' = NoObservation
    /\ UNCHANGED << call, engine >>

(***************************************************************************)
(* The specification.                                                      *)
(***************************************************************************)
Next ==
    \/ NodeReorg
    \/ RpcFail
    \/ OpenDb
    \/ SyncStart
    \/ RpcHashRb
    \/ RbTest
    \/ UnHashes
    \/ UnBlocks
    \/ UnTx
    \/ UnIn
    \/ UnInIns
    \/ UnOut
    \/ RbDec
    \/ RpcHashFwd
    \/ RpcBlock
    \/ ApHashes
    \/ ApBlocks
    \/ ApTx
    \/ TxOut
    \/ ApErr
    \/ TxIn
    \/ TxInIns

Spec == Init /\ [][Next]_vars

(***************************************************************************)
(* Readers.  get_balances, get_arbitrary_unspent_set and get_unspent take  *)
(* &Db and no lock, so a reader on another thread runs between any two     *)
(* sled operations of synchronize.  The read is taken here as one atomic   *)
(* look at the whole unspent tree, which is the most a sled iterator       *)
(* gives.                                                                  *)
(***************************************************************************)
\* The unspent tables at the block boundaries around the current state: the
\* table itself between block operations; inside one, the table before it
\* and the table its successful end leaves.
BoundaryTables ==
    IF gh.op = "none" THEN { unspent }
    ELSE IF gh.op = "unapply"
      THEN { gh.pre.unspent, unapply_highest_block(gh.pre).db.unspent }
    ELSE IF pc = "idle" THEN { gh.pre.unspent }
    ELSE LET r == apply_block(gh.pre, l.block, l.hash, filter)
         IN  IF r.err THEN { gh.pre.unspent }
             ELSE { gh.pre.unspent, r.db.unspent }

Reader ==
    /\ observed' = [read |-> TRUE, unspent |-> unspent,
                    boundary |-> unspent \in BoundaryTables]
    /\ UNCHANGED << db, pc, result, l, node, filter, gh, call, engine >>

NextReader ==
    \/ Reader
    \/ NodeReorg
    \/ RpcFail
    \/ OpenDb
    \/ SyncStart
    \/ RpcHashRb
    \/ RbTest
    \/ UnHashes
    \/ UnBlocks
    \/ UnTx
    \/ UnIn
    \/ UnInIns
    \/ UnOut
    \/ RbDec
    \/ RpcHashFwd
    \/ RpcBlock
    \/ ApHashes
    \/ ApBlocks
    \/ ApTx
    \/ TxOut
    \/ ApErr
    \/ TxIn
    \/ TxInIns

SpecReader == Init /\ [][NextReader]_vars

(***************************************************************************)
(* Properties.                                                             *)
(***************************************************************************)
\* The blocks stored for the local chain are the node's blocks.
BlocksOfNode ==
    /\ DOMAIN blocks = { node[i] : i \in 1..Len(node) }
    /\ \A h \in DOMAIN blocks : blocks[h] = node_get_block(h)

\* synchronize has just returned Ok and the node's chain did not change
\* while it ran.
SyncedOk == pc = "idle" /\ result = "ok" /\ gh.stable

\* C1: when synchronize returns Ok on a database that only successful
\* open_db and synchronize calls have written, against a node whose chain
\* stayed as it was during the call, block_hashes holds at every height
\* 0..H the node's hash at that height, nothing above H, and blocks holds
\* those blocks (H the node's best height).
C1_SyncedToNodeChain ==
    (SyncedOk /\ gh.allOk) => (LocalChain = node /\ BlocksOfNode)

\* C2: when unapply_highest_block has rolled back a block that apply_block
\* had applied, unspent and spent are the tables from before that block was
\* applied.
C2_UnapplyRestoresTables ==
    (pc = "rb_dec" /\ gh.applied.hash = l.hash)
        => (unspent = gh.applied.unspent /\ spent = gh.applied.spent)

\* C3: every record of unspent is keyed by the hash of its transaction and
\* the position of its output in that transaction's full output list: the
\* output at that position passes the filter, is a Coin<0>, and carries the
\* record's owner and amount.
C3_KeyedByChainPosition ==
    \A r \in DOMAIN unspent :
        /\ r.tx_hash \in DOMAIN TxTable
        /\ r.index < Len(TxTable[r.tx_hash].outputs)
        /\ LET o == TxTable[r.tx_hash].outputs[r.index + 1]
           IN  /\ Filter(filter, o.verifier)
               /\ IsCoin0(o.payload)
               /\ o.verifier = SigCheck(unspent[r].owner)
               /\ o.payload.amount = unspent[r].amount

\* C4: a follower that holds the index of some branch, and then synchronizes
\* with Ok against a node that has settled on another chain, ends with the
\* block_hashes, blocks, unspent and spent of a fresh follower of that
\* chain.
C4_ReorgEqualsFreshSync ==
    (SyncedOk /\ gh.startClean) => Cur = Fresh(node, filter)

\* C4 happens: such a call rolled blocks back and applied blocks of the
\* other branch up to its tip, and the index it left is not empty.
C4_Witness ==
    /\ SyncedOk /\ gh.startClean /\ gh.rolled
    /\ Len(node) = 3
    /\ unspent # EmptyMap /\ spent # EmptyMap

\* C5: when apply_block returns Err, block_hashes, blocks, unspent and spent
\* are as they were before apply_block was called.
C5_FailedApplyLeavesNothing ==
    (pc = "idle" /\ result = "err_apply") => Cur = gh.pre

\* C6: when the rollback loop finds at height 0 that the local genesis hash
\* is not the node's, synchronize returns the different-chain error at once
\* and leaves the four tables as they are.
C6_GenesisMismatchIsAnError ==
    [][ (pc = "rb_test" /\ l.height = 0 /\ l.wallet_hash # l.node_hash)
            => (pc' = "idle" /\ result' = "err_different_chain"
                /\ UNCHANGED db) ]_vars

\* C7: when a synchronize call ends at an RPC (it fails, or the call is
\* dropped there), no stored block is partly applied; and taken up from any
\* RPC of a call, a synchronize that returns Ok against the same node chain
\* leaves the four tables that the call left uninterrupted would.
C7_RestartableAtRpc ==
    /\ (pc = "idle" /\ result = "err_rpc") => gh.partial = {}
    /\ (pc \in RpcPcs /\ gh.stable)
          => LET later == synchronize(Cur, node, filter)
                 whole == synchronize(gh.start, node, filter)
             IN  later.result = "ok" => later.db = whole.db

\* C8: a reader running beside synchronize sees the unspent table as it is
\* at a block boundary.
C8_ReadersSeeBlockBoundaries == observed.read => observed.boundary

\* apply_transaction has left its output loop: by its end, or through Err.
OutputsDone == (pc = "tx_in" /\ l.ii = 1) \/ pc = "ap_err"

\* The records unspent holds under the hash of the current transaction.
RecordsOfCurTx ==
    { unspent[r] : r \in { k \in DOMAIN unspent : k.tx_hash = hash_of(CurTx) } }

\* The record of the output at position j of the current transaction.
RecordOf(j) ==
    LET o == CurTx.outputs[j]
    IN  [owner |-> IF o.verifier.kind = "SigCheck"
                     THEN o.verifier.owner_pubkey ELSE None,
         amount |-> o.payload.amount]

\* The outputs of the current transaction, among its first n, that pass the
\* filter and decode as Coin<0>.
OwnedCoins(n) ==
    { j \in 1..n : /\ Filter(filter, CurTx.outputs[j].verifier)
                   /\ IsCoin0(CurTx.outputs[j].payload) }

\* C9: when apply_transaction is through with the outputs, every output
\* that passes the filter and decodes as Coin<0> has its record in unspent,
\* whatever its verifier, and no other output has.
C9_EveryOwnedCoinInserted ==
    OutputsDone =>
        /\ \A j \in OwnedCoins(Len(CurTx.outputs)) :
              \E r \in RecordsOfCurTx :
                 /\ r.amount = RecordOf(j).amount
                 /\ RecordOf(j).owner # None => r.owner = RecordOf(j).owner
        /\ RecordsOfCurTx \subseteq
              { RecordOf(j) : j \in OwnedCoins(Len(CurTx.outputs)) }

\* apply_transaction has gone through every input of the transaction.
InputsDone == pc = "tx_in" /\ l.ii > Len(CurTx.inputs)

Inputs == { CurTx.inputs[i] : i \in 1..Len(CurTx.inputs) }

\* The inputs that were in unspent when the transaction began.
Moved == Inputs \cap DOMAIN gh.txpre.unspent

\* C10: when apply_transaction has gone through the inputs, each input that
\* was in unspent is out of unspent and in spent with the owner and amount
\* it had; every other input left both tables as they were; nothing else of
\* spent changed, and nothing left unspent but the moved inputs.
C10_InputsMovedToSpent ==
    InputsDone =>
        /\ DOMAIN spent = DOMAIN gh.txpre.spent \cup Moved
        /\ \A r \in DOMAIN spent :
              spent[r] = IF r \in Moved THEN gh.txpre.unspent[r]
                         ELSE gh.txpre.spent[r]
        /\ DOMAIN gh.txpre.unspent \ DOMAIN unspent = Moved
        /\ \A r \in DOMAIN gh.txpre.unspent \ Moved :
              unspent[r] = gh.txpre.unspent[r]

\* C10 happens: a transaction with one input the wallet held and one it
\* never indexed has been applied.
C10_Witness ==
    /\ InputsDone
    /\ Moved # {}
    /\ Inputs \ Moved # {}
    /\ \E r \in Moved : spent[r].amount > 0

\* What the rollback of a block is to leave of the tables T = [unspent,
\* spent]: the transactions from the last to the first, of each first the
\* inputs, in list order, then the outputs.
RECURSIVE InputsBack(_, _)
InputsBack(T, ins) ==
    IF ins = << >> THEN T
    ELSE LET r == ins[1]
         IN  InputsBack(IF r \in DOMAIN T.spent
                          THEN [unspent |-> [x \in DOMAIN T.unspent \cup { r } |->
                                               IF x = r THEN T.spent[r]
                                               ELSE T.unspent[x]],
                                spent |-> [x \in DOMAIN T.spent \ { r } |->
                                             T.spent[x]]]
                          ELSE T,
                        Tail(ins))

OutputsGone(T, tx) ==
    [T EXCEPT !.unspent =
       [x \in DOMAIN T.unspent \
              { Ref(hash_of(tx), i - 1) : i \in 1..Len(tx.outputs) } |->
          T.unspent[x]]]

RECURSIVE RolledBack(_, _)
RolledBack(T, txs) ==
    IF txs = << >> THEN T
    ELSE RolledBack(OutputsGone(InputsBack(T, txs[Len(txs)].inputs),
                                txs[Len(txs)]),
                    SubSeq(txs, 1, Len(txs) - 1))

\* C25: when unapply_highest_block has returned Ok, the block_hashes entry
\* at the former best height and the blocks entry of its hash are gone and
\* nothing else of the two tables has changed, height() is lower by exactly
\* 1, and unspent and spent are what unapplying the block's transactions in
\* reverse list order leaves, of each transaction the inputs first.
C25_RollbackStep ==
    (pc = "rb_dec" /\ gh.op = "unapply") =>
        LET h == height(gh.pre.block_hashes)
            hash == gh.pre.block_hashes[h]
            T == RolledBack([unspent |-> gh.pre.unspent, spent |-> gh.pre.spent],
                            gh.pre.blocks[hash].extrinsics)
        IN  /\ h \in DOMAIN gh.pre.block_hashes
            /\ hash \in DOMAIN gh.pre.blocks
            /\ DOMAIN block_hashes = DOMAIN gh.pre.block_hashes \ { h }
            /\ \A k \in DOMAIN block_hashes : block_hashes[k] = gh.pre.block_hashes[k]
            /\ DOMAIN blocks = DOMAIN gh.pre.blocks \ { hash }
            /\ \A k \in DOMAIN blocks : blocks[k] = gh.pre.blocks[k]
            /\ height(block_hashes) = h - 1
            /\ unspent = T.unspent
            /\ spent = T.spent

\* The block rolled back has two transactions, the second of which had spent
\* an output of the wallet, and a lower block stays stored.
C25_Witness ==
    /\ pc = "rb_dec"
    /\ gh.op = "unapply"
    /\ height(block_hashes) >= 1
    /\ Len(l.block.extrinsics) >= 2
    /\ gh.pre.spent # EmptyMap
    /\ spent # gh.pre.spent
    /\ unspent # gh.pre.unspent

\* The positions of the rollback loop and of the forward loop.
RollbackPcs ==
    { "rpc_hash_rb", "rb_test", "un_hashes", "un_blocks", "un_tx", "un_in",
      "un_in_ins", "un_out", "rb_dec" }

ForwardPcs ==
    { "rpc_hash_fwd", "rpc_block", "ap_hashes", "ap_blocks", "ap_tx",
      "tx_out", "ap_err", "tx_in", "tx_in_ins" }

\* C26: within one synchronize call no rollback follows a forward step; the
\* forward loop starts at the agreed height + 1, stores each block at the
\* height it asked the node for, which is the local best height + 1, and
\* returns at the first height for which the node has no hash; the
\* transactions of a block are taken in list order, and within a transaction
\* unspent gains records only in the loop over the outputs and loses them
\* only in the loop over the inputs, which begins when the outputs are done.
C26_RollbackThenForwardInOrder ==
    [][ /\ pc \in ForwardPcs => pc' \in ForwardPcs \cup { "idle" }
        /\ (pc = "rb_test" /\ pc' = "rpc_hash_fwd") =>
              /\ l.wallet_hash = l.node_hash
              /\ l.height = height(block_hashes)
              /\ l'.height = height(block_hashes) + 1
        /\ (pc = "rpc_hash_fwd" /\ pc' = "idle" /\ result' = "ok") =>
              node_get_block_hash(node, l.height) = None
        /\ (pc = "rpc_hash_fwd" /\ pc' = "rpc_block") =>
              l'.node_hash = node_get_block_hash(node, l.height)
        /\ block_hashes' # block_hashes /\ pc \in ForwardPcs =>
              /\ pc = "ap_hashes"
              /\ l.height = height(block_hashes) + 1
              /\ block_hashes' = Put(block_hashes, l.height, l.node_hash)
        /\ (pc = "ap_blocks" /\ pc' = "ap_tx") => l'.ti = 1
        /\ (pc = "ap_tx" /\ pc' = "tx_out") => l'.ti = l.ti
        /\ (pc = "tx_in" /\ pc' = "ap_tx") => l'.ti = l.ti + 1
        /\ (pc = "ap_tx" /\ pc' = "rpc_hash_fwd") =>
              /\ l.ti = Len(l.block.extrinsics) + 1
              /\ l'.height = l.height + 1
        /\ (pc \in ForwardPcs /\ DOMAIN unspent' \ DOMAIN unspent # {}) =>
              pc = "tx_out"
        /\ (pc \in ForwardPcs /\ DOMAIN unspent \ DOMAIN unspent' # {}) =>
              pc = "tx_in" /\ l.oi > Len(CurTx.outputs)
        /\ (pc \in ForwardPcs /\ spent' # spent) =>
              pc = "tx_in_ins" /\ l.oi > Len(CurTx.outputs)
      ]_vars

\* After a rollback in the same call the forward loop is spending an input
\* of the second transaction of a block.
C26_Witness ==
    /\ gh.rolled
    /\ pc = "tx_in_ins"
    /\ l.ti = 2
    /\ l.height = height(block_hashes)
    /\ l.height >= 1

\* The local best hash of the database D is the node's hash at that height
\* and the node has no block above it.
AtNodeTip(D, chain) ==
    LET h == height(D.block_hashes)
    IN  /\ h >= 0
        /\ get_block_hash(D.block_hashes, h) # None
        /\ get_block_hash(D.block_hashes, h) = node_get_block_hash(chain, h)
        /\ node_get_block_hash(chain, h + 1) = None

\* The positions synchronize passes when neither loop runs.
ZeroTurnPcs == { "idle", "rpc_hash_rb", "rb_test", "rpc_hash_fwd" }

\* C27: a synchronize call that begins at the tip of a node whose chain does
\* not change runs neither loop and changes no table; so does a call that
\* follows a call that returned Ok against the same chain.
C27_SynchronizeIsIdempotent ==
    (gh.stable /\ (AtNodeTip(gh.start, node) \/ gh.again)) =>
        /\ Cur = gh.start
        /\ pc \in ZeroTurnPcs
        /\ ~gh.rolled
        /\ gh.op = "none"

\* The second of two calls against a chain of three blocks has returned Ok.
C27_Witness ==
    /\ gh.stable
    /\ gh.again
    /\ pc = "idle"
    /\ result = "ok"
    /\ height(block_hashes) = 2
    /\ unspent # EmptyMap
    /\ Cur = gh.start

\* A synchronize call has returned, no RPC has failed, the node has
\* reported one chain throughout, and the index began with that chain's
\* genesis block.
ReturnedOnFixedChain ==
    /\ pc = "idle"
    /\ result \in { "ok", "err_apply", "err_unapply", "panic" }
    /\ gh.stable
    /\ get_block_hash(gh.start.block_hashes, 0) = node[1]

C29_UnspentAndSpentDisjoint ==
    IsBranch(LocalChain) => DOMAIN unspent \cap DOMAIN spent = {}

\* After a rollback and a forward sync on the other branch both tables hold
\* records.
C29_Witness ==
    /\ IsBranch(LocalChain)
    /\ gh.rolled
    /\ gh.fwd >= 1
    /\ pc = "idle"
    /\ height(block_hashes) >= 1
    /\ unspent # EmptyMap
    /\ spent # EmptyMap

\* C30: between synchronize calls the keys of block_hashes are the heights
\* 0..height(), every hash in block_hashes is a key of blocks, and blocks has
\* no other key.
C30_BlockTablesConsistent ==
    pc = "idle" =>
        /\ DOMAIN block_hashes = 0..height(block_hashes)
        /\ \A h \in DOMAIN block_hashes : block_hashes[h] \in DOMAIN blocks
        /\ \A hash \in DOMAIN blocks :
               \E h \in DOMAIN block_hashes : block_hashes[h] = hash

\* A call that rolled a block back and applied another was dropped in an
\* RPC.
C30_Witness ==
    /\ pc = "idle"
    /\ result = "err_rpc"
    /\ gh.rolled
    /\ gh.fwd >= 1
    /\ height(block_hashes) >= 1
    /\ gh.start.block_hashes # block_hashes

\* C31: the local chain is always one branch of the node's history: every
\* stored block above height 0 has the stored block below it as its parent,
\* and when the local hash at the best height is the node's hash at that
\* height, the local and the node's hashes are equal at every lower height.
C31_LocalChainIsOneBranch ==
    /\ IsBranch(LocalChain)
    /\ LET h == height(block_hashes)
       IN  (h >= 0 /\ get_block_hash(block_hashes, h)
                        = node_get_block_hash(node, h))
              => \A k \in 0..h : get_block_hash(block_hashes, k)
                                   = node_get_block_hash(node, k)

\* The transactions of the genesis blocks, by hash.
GenesisTxs ==
    { h \in DOMAIN TxTable :
        \E g \in Genesis :
            \E i \in 1..Len(BlockTable[g].extrinsics) :
                BlockTable[g].extrinsics[i] = TxTable[h] }

ApplyPcs ==
    { "ap_hashes", "ap_blocks", "ap_tx", "tx_out", "ap_err", "tx_in",
      "tx_in_ins" }

\* C32: open_db on an empty database writes block_hashes and blocks and
\* leaves unspent and spent empty; no output of a genesis block is ever a
\* key of unspent or spent, and the forward loop applies blocks from height
\* 1 on.
C32_GenesisIsNotIndexed ==
    [][ /\ (OpenDb /\ block_hashes = EmptyMap) =>
              /\ unspent = EmptyMap /\ spent = EmptyMap
              /\ unspent' = EmptyMap /\ spent' = EmptyMap
              /\ DOMAIN block_hashes' = { 0 }
              /\ DOMAIN blocks' = { block_hashes'[0] }
        /\ \A r \in DOMAIN unspent' \cup DOMAIN spent' :
               r.tx_hash \notin GenesisTxs
        /\ pc' \in ApplyPcs => l'.height >= 1 /\ l'.block.number >= 1
      ]_vars

\* open_db has seeded an empty database with a genesis block that has an
\* output of the wallet's key.
C32_Witness ==
    /\ pc = "idle"
    /\ result = "open_ok"
    /\ DOMAIN block_hashes = { 0 }
    /\ \E i \in 1..Len(blocks[block_hashes[0]].extrinsics) :
         \E j \in 1..Len(blocks[block_hashes[0]].extrinsics[i].outputs) :
           LET o == blocks[block_hashes[0]].extrinsics[i].outputs[j]
           IN  Filter(filter, o.verifier) /\ IsCoin0(o.payload)
    /\ unspent = EmptyMap
    /\ spent = EmptyMap

\* C13: a call of open_db on an empty database stores (0 -> the expected
\* genesis hash) in block_hashes and (that hash -> the genesis block) in
\* blocks and returns Ok; on a populated database it changes no table, and
\* returns Err when the stored hash at height 0 is not the expected one and
\* Ok when it is.
C13_OpenDbSeedsOrChecksGenesis ==
    [][ OpenDb =>
          LET expected == gh'.opened
          IN  IF block_hashes = EmptyMap
                THEN /\ block_hashes' = (0 :> expected)
                     /\ DOMAIN blocks' = DOMAIN blocks \cup { expected }
                     /\ blocks'[expected] = node_get_block(expected)
                     /\ \A h \in DOMAIN blocks \ { expected } :
                           blocks'[h] = blocks[h]
                     /\ UNCHANGED << unspent, spent >>
                     /\ result' = "open_ok"
                ELSE /\ UNCHANGED db
                     /\ result' = IF block_hashes[0] = expected
                                    THEN "open_ok" ELSE "open_err" ]_vars

\* C13 happens: open_db refused a populated database whose genesis is not
\* the expected one.
C13_Witness ==
    /\ result = "open_err"
    /\ gh.opened # block_hashes[0]
    /\ height(block_hashes) > 0
    /\ unspent # EmptyMap

(***************************************************************************)
(* The readers as functions of the unspent table.  A u128 is scaled down   *)
(* to the range 0..U128Max; `total += amount` and `*old += amount` are     *)
(* plain additions, which panic on overflow in a build with overflow       *)
(* checks and wrap in one without.                                         *)
(***************************************************************************)
\* u128::MAX, scaled down.
U128Max == 3

\* The order of the keys of a sled tree: bytewise, the transaction hash
\* first and the index after it.
HashOrder == << "t1", "t2", "t3", "t4", "t5", "t6", "tg" >>

HashRank(h) == CHOOSE i \in 1..Len(HashOrder) : HashOrder[i] = h

KeyBefore(a, b) ==
    \/ HashRank(a.tx_hash) < HashRank(b.tx_hash)
    \/ a.tx_hash = b.tx_hash /\ a.index < b.index

\* tree.iter(): the keys of a table in key order.
RECURSIVE Iter(_)
Iter(keys) ==
    IF keys = {} THEN << >>
    ELSE LET first == CHOOSE k \in keys :
                        \A other \in keys \ { k } : KeyBefore(k, other)
         IN  << first >> \o Iter(keys \ { first })

\* The while loop of get_arbitrary_unspent_set over the rest of the iterator.
RECURSIVE PickUntil(_, _, _, _, _, _)
PickUntil(u, target, build, total, keepers, rest) ==
    IF ~(total < target) THEN [kind |-> "Some", refs |-> keepers]
    ELSE IF rest = << >> THEN [kind |-> "None"]
    ELSE LET output_ref == Head(rest)
             sum == total + u[output_ref].amount
         IN  IF sum > U128Max /\ build = "overflow-checks"
               THEN [kind |-> "panic"]
             ELSE PickUntil(u, target, build, sum % (U128Max + 1),
                            Append(keepers, output_ref), Tail(rest))

get_arbitrary_unspent_set(u, target, build) ==
    PickUntil(u, target, build, 0, << >>, Iter(DOMAIN u))

\* The for loop of get_balances over the rest of the iterator.
RECURSIVE Fold(_, _, _, _)
Fold(u, build, balances, rest) ==
    IF rest = << >> THEN [kind |-> "Ok", balances |-> balances]
    ELSE LET owner == u[Head(rest)].owner
             amount == u[Head(rest)].amount
         IN  IF ~Has(balances, owner)
               THEN Fold(u, build, Put(balances, owner, amount), Tail(rest))
             ELSE IF balances[owner] + amount > U128Max
                     /\ build = "overflow-checks"
               THEN [kind |-> "panic"]
             ELSE Fold(u, build,
                       Put(balances, owner,
                           (balances[owner] + amount) % (U128Max + 1)),
                       Tail(rest))

get_balances(u, build) == Fold(u, build, EmptyMap, Iter(DOMAIN u))

\* The keys and the records the tables of the reader calls are built from.
QueryRefs == { Ref("t1", 0), Ref("t1", 1), Ref("t5", 0) }

QueryRecords == [owner : { "alice", "bob" }, amount : 0..U128Max]

QueryTables ==
    UNION { [keys -> QueryRecords] : keys \in SUBSET QueryRefs }

InitQuery ==
    /\ block_hashes = EmptyMap
    /\ blocks = EmptyMap
    /\ unspent \in QueryTables
    /\ spent = EmptyMap
    /\ pc = "idle"
    /\ result = "none"
    /\ l = NoLocals
    /\ node = << "G" >>
    /\ filter = "keys"
    /\ gh = NoHistory
    /\ observed = NoObservation
    /\ call = NoCall
    /\ engine = NoEngine

GetArbitraryUnspentSet ==
    /\ call = NoCall
    /\ \E target \in 0..U128Max, build \in Builds :
         call' = [fn |-> "get_arbitrary_unspent_set", target |-> target,
                  ret |-> get_arbitrary_unspent_set(unspent, target, build)]
    /\ UNCHANGED << db, pc, result, l, node, filter, gh, observed, engine >>

GetBalances ==
    /\ call = NoCall
    /\ \E build \in Builds :
         call' = [fn |-> "get_balances",
                  ret |-> get_balances(unspent, build)]
    /\ UNCHANGED << db, pc, result, l, node, filter, gh, observed, engine >>

NextQuery ==
    \/ GetArbitraryUnspentSet
    \/ GetBalances

SpecQuery == InitQuery /\ [][NextQuery]_vars

\* The sum of the amounts of the records of u under the keys in refs.
RECURSIVE SumAmounts(_, _)
SumAmounts(u, refs) ==
    IF refs = {} THEN 0
    ELSE LET r == CHOOSE k \in refs : TRUE
         IN  u[r].amount + SumAmounts(u, refs \ { r })

\* C11: get_arbitrary_unspent_set(target) returns Some(refs) of distinct
\* keys of unspent whose amounts sum to at least target whenever the amounts
\* of unspent sum to at least target, and returns None exactly when they sum
\* to less.
C11_ArbitrarySetReachesTarget ==
    call.fn = "get_arbitrary_unspent_set" =>
        LET all == SumAmounts(unspent, DOMAIN unspent)
            ret == call.ret
        IN  /\ all >= call.target =>
                 /\ ret.kind = "Some"
                 /\ \A i, j \in 1..Len(ret.refs) :
                       ret.refs[i] = ret.refs[j] => i = j
                 /\ \A i \in 1..Len(ret.refs) : ret.refs[i] \in DOMAIN unspent
                 /\ SumAmounts(unspent,
                               { ret.refs[i] : i \in 1..Len(ret.refs) })
                       >= call.target
            /\ ret.kind = "None" <=> all < call.target

\* The owners that have a record in u.
Owners(u) == { u[r].owner : r \in DOMAIN u }

\* C12: get_balances returns one entry for each owner that has a record in
\* unspent, holding the sum of the amounts of that owner's records, and no
\* other entry.
C12_BalancesAreOwnerSums ==
    call.fn = "get_balances" =>
        /\ call.ret.kind = "Ok"
        /\ DOMAIN call.ret.balances = Owners(unspent)
        /\ \A o \in Owners(unspent) :
              call.ret.balances[o] =
                 SumAmounts(unspent,
                            { r \in DOMAIN unspent : unspent[r].owner = o })

(***************************************************************************)
(* The Tux0 constraint checkers (wardrobe/tux0/src/lib.rs), for ID = 0.    *)
(* A DynamicallyTypedData is a type id and data.  The data is a number:    *)
(* for a coin its value, or -1 for bytes that do not decode as a u128;     *)
(* for a DAPCoin the name of its H256.                                     *)
(***************************************************************************)
\* TransactionPriority::MAX (a u64), scaled down as U128Max is.
U64Max == 1

\* The longest input, peek or output list of a checked transaction.
MaxItems == 2

Data(type_id, data) == [type_id |-> type_id, data |-> data]

Ok(v) == [kind |-> "Ok", value |-> v]

Err(e) == [kind |-> "Err", error |-> e]

\* item.extract::<Coin<ID>>(): the type id was matched by the caller, the
\* data has to decode as a u128.
extract_coin(item) ==
    IF item.data \in 0..U128Max THEN Ok(item.data) ELSE Err("BadlyTyped")

\* u128::wrapping_add in the place of checked_add.
wrapping_add(a, b) == Ok((a + b) % (U128Max + 1))

\* u128::checked_add(..).ok_or(ValueOverflow)
checked_add(a, b) ==
    IF a + b > U128Max THEN Err("ValueOverflow") ELSE Ok(a + b)

\* The rest of the for loop of total_value, with unknown type ids skipped.
RECURSIVE total_from_skipping(_, _, _, _, _)
total_from_skipping(data, allow_money, allow_dap, total, i) ==
    IF i > Len(data) THEN Ok(total)
    ELSE LET item == data[i]
         IN  IF item.type_id = "coi0"
               THEN IF ~allow_money THEN Err("BadlyTyped")
                    ELSE LET utxo_value == extract_coin(item)
                         IN  IF utxo_value.kind = "Err" THEN utxo_value
                             ELSE LET sum == checked_add(total,
                                                         utxo_value.value)
                                  IN  IF sum.kind = "Err" THEN sum
                                      ELSE total_from_skipping(data,
                                             allow_money, allow_dap,
                                             sum.value, i + 1)
             ELSE IF item.type_id = "dap0"
               THEN IF ~allow_dap THEN Err("BadlyTyped")
                    ELSE LET sum == checked_add(total, 1)
                         IN  IF sum.kind = "Err" THEN sum
                             ELSE total_from_skipping(data, allow_money,
                                    allow_dap, sum.value, i + 1)
             ELSE total_from_skipping(data, allow_money, allow_dap,
                                      total, i + 1)

\* The rest of the for loop of total_value from item i on.
RECURSIVE total_from(_, _, _, _, _)
total_from(data, allow_money, allow_dap, total, i) ==
    IF i > Len(data) THEN Ok(total)
    ELSE LET item == data[i]
         IN  IF item.type_id = "coi0"
               THEN IF ~allow_money THEN Err("BadlyTyped")
                    ELSE LET utxo_value == extract_coin(item)
                         IN  IF utxo_value.kind = "Err" THEN utxo_value
                             ELSE LET sum == checked_add(total,
                                                         utxo_value.value)
                                  IN  IF sum.kind = "Err" THEN sum
                                      ELSE total_from(data, allow_money,
                                             allow_dap, sum.value, i + 1)
             ELSE IF item.type_id = "dap0"
               THEN IF ~allow_dap THEN Err("BadlyTyped")
                    ELSE LET sum == checked_add(total, 1)
                         IN  IF sum.kind = "Err" THEN sum
                             ELSE total_from(data, allow_money, allow_dap,
                                             sum.value, i + 1)
             ELSE Err("BadlyTyped")

total_value(data, allow_money, allow_dap) ==
    total_from(data, allow_money, allow_dap, 0, 1)

\* saturated_into with nothing cut off.
unsaturated_into(x) == x

\* SaturatedConversion::saturated_into::<TransactionPriority>()
saturated_into(x) == IF x > U64Max THEN U64Max ELSE x

\* Tux0Mint::check with `>` in the place of `>=`.
Tux0Mint_check_strict(input_data, peeks, output_data) ==
    LET total_input_value == total_value(input_data, TRUE, FALSE)
        total_output_value == total_value(output_data, FALSE, TRUE)
    IN  IF total_input_value.kind = "Err" THEN total_input_value
        ELSE IF total_output_value.kind = "Err" THEN total_output_value
        ELSE IF total_input_value.value > total_output_value.value
          THEN Ok(saturated_into(total_input_value.value
                                 - total_output_value.value))
        ELSE Err("OutputsExceedInputs")

\* Tux0Mint::check with the outputs' total left unchecked.
Tux0Mint_check_no_dominance(input_data, peeks, output_data) ==
    LET total_input_value == total_value(input_data, TRUE, FALSE)
        total_output_value == total_value(output_data, FALSE, TRUE)
    IN  IF total_input_value.kind = "Err" THEN total_input_value
        ELSE IF total_output_value.kind = "Err" THEN total_output_value
        ELSE IF total_input_value.value >= total_output_value.value
          THEN Ok(saturated_into(total_input_value.value
                                 - total_output_value.value))
        ELSE Ok(0)

Tux0Mint_check(input_data, peeks, output_data) ==
    LET total_input_value == total_value(input_data, TRUE, FALSE)
        total_output_value == total_value(output_data, FALSE, TRUE)
    IN  IF total_input_value.kind = "Err" THEN total_input_value
        ELSE IF total_output_value.kind = "Err" THEN total_output_value
        ELSE IF total_input_value.value >= total_output_value.value
          THEN Ok(saturated_into(total_input_value.value
                                 - total_output_value.value))
        ELSE Err("OutputsExceedInputs")

Tux0TransferVerifier == [kind |-> "Tux0TransferVerifier", owner_pubkey |-> None]

\* inputs.iter().map(|i| i.payload.clone()).collect()
Payloads(outs) == [i \in 1..Len(outs) |-> outs[i].payload]

\* Tux0Transfer::check with Coins allowed among the inputs.
Tux0Transfer_check_money_in(inputs, peeks, outputs) ==
    LET total_input_value == total_value(Payloads(inputs), TRUE, TRUE)
        total_output_value == total_value(Payloads(outputs), TRUE, TRUE)
    IN  IF total_input_value.kind = "Err" THEN total_input_value
        ELSE IF total_output_value.kind = "Err" THEN total_output_value
        ELSE IF total_input_value.value >= total_output_value.value
          THEN Ok(saturated_into(total_input_value.value
                                 - total_output_value.value))
        ELSE Err("OutputsExceedInputs")

Tux0Transfer_check(inputs, peeks, outputs) ==
    LET input_data == Payloads(inputs)
        output_data == Payloads(outputs)
        total_input_value == total_value(input_data, FALSE, TRUE)
        total_output_value == total_value(output_data, TRUE, TRUE)
    IN  IF total_input_value.kind = "Err" THEN total_input_value
        ELSE IF total_output_value.kind = "Err" THEN total_output_value
        ELSE IF total_input_value.value >= total_output_value.value
          THEN Ok(saturated_into(total_input_value.value
                                 - total_output_value.value))
        ELSE Err("OutputsExceedInputs")

\* The payloads a checked transaction is built from: Coin<0> of every
\* value, a Coin<0> type id over bytes that do not decode, a DAPCoin<0>,
\* and a Coin<1>.
Items ==
    { Data("coi0", n) : n \in 0..U128Max }
        \cup { Data("coi0", -1), Data("dap0", 0), Data("coi1", 1) }

Lists == UNION { [1..n -> Items] : n \in 0..MaxItems }

PeekLists == { << >>, << Data("coi0", U128Max) >> }

InitTux0 ==
    /\ block_hashes = EmptyMap
    /\ blocks = EmptyMap
    /\ unspent = EmptyMap
    /\ spent = EmptyMap
    /\ pc = "idle"
    /\ result = "none"
    /\ l = NoLocals
    /\ node = << "G" >>
    /\ filter = "keys"
    /\ gh = NoHistory
    /\ observed = NoObservation
    /\ call \in [fn : { "none" }, input_data : Lists, peeks : PeekLists,
                 output_data : Lists]
    /\ engine = NoEngine

Tux0MintCheck ==
    /\ call.fn = "none"
    /\ call' = [fn |-> "Tux0Mint", input_data |-> call.input_data,
                peeks |-> call.peeks, output_data |-> call.output_data,
                ret |-> Tux0Mint_check(call.input_data, call.peeks,
                                       call.output_data)]
    /\ UNCHANGED << db, pc, result, l, node, filter, gh, observed, engine >>

\* The checker is called with the outputs the payloads belong to.
WithVerifier(data) == [i \in 1..Len(data) |-> Out(Tux0TransferVerifier, data[i])]

Tux0TransferCheck ==
    /\ call.fn = "none"
    /\ call' = [fn |-> "Tux0Transfer", input_data |-> call.input_data,
                peeks |-> call.peeks, output_data |-> call.output_data,
                ret |-> Tux0Transfer_check(WithVerifier(call.input_data),
                                           WithVerifier(call.peeks),
                                           WithVerifier(call.output_data))]
    /\ UNCHANGED << db, pc, result, l, node, filter, gh, observed, engine >>

\* A checker that takes the inputs' count as the priority and refuses a
\* transaction without outputs.
DummyParachainInfo_check_counting(input_data, peeks, output_data) ==
    IF output_data = << >> THEN Err("()") ELSE Ok(Len(input_data))

\* DummyParachainInfo::check of the template runtime.
DummyParachainInfo_check(input_data, peeks, output_data) == Ok(0)

DummyParachainInfoCheck ==
    /\ call.fn = "none"
    /\ call' = [fn |-> "DummyParachainInfo", input_data |-> call.input_data,
                peeks |-> call.peeks, output_data |-> call.output_data,
                ret |-> DummyParachainInfo_check(call.input_data, call.peeks,
                                                 call.output_data)]
    /\ UNCHANGED << db, pc, result, l, node, filter, gh, observed, engine >>

NextTux0 ==
    \/ Tux0MintCheck
    \/ Tux0TransferCheck
    \/ DummyParachainInfoCheck

SpecTux0 == InitTux0 /\ [][NextTux0]_vars

(***************************************************************************)
(* Properties of the Tux0 checkers.                                        *)
(***************************************************************************)
\* A payload is a Coin<0>: the type id and a value that decodes.
IsCoin(item) == item.type_id = "coi0" /\ item.data >= 0

\* A payload is a DAPCoin<0>.
IsDap(item) == item.type_id = "dap0"

\* The value of a payload: a coin's value, one unit for a DAPCoin.
ValueOf(item) == IF IsCoin(item) THEN item.data ELSE 1

\* The value of the first n payloads of a list, as a number without bound.
RECURSIVE ValueUpTo(_, _)
ValueUpTo(data, n) ==
    IF n = 0 THEN 0 ELSE ValueUpTo(data, n - 1) + ValueOf(data[n])

TotalOf(data) == ValueUpTo(data, Len(data))

\* The payload at position i is of a kind its side does not allow.
BadAt(data, i, allow_money, allow_dap) ==
    ~ \/ allow_money /\ IsCoin(data[i])
      \/ allow_dap /\ IsDap(data[i])

\* The position of the first payload its side does not allow, or one past
\* the end.
FirstBad(data, allow_money, allow_dap) ==
    IF \E i \in 1..Len(data) : BadAt(data, i, allow_money, allow_dap)
      THEN CHOOSE i \in 1..Len(data) :
             /\ BadAt(data, i, allow_money, allow_dap)
             /\ \A j \in 1..(i - 1) : ~BadAt(data, j, allow_money, allow_dap)
      ELSE Len(data) + 1

\* The running sum exceeds u128::MAX before the scan meets a payload its
\* side does not allow.
Overflows(data, allow_money, allow_dap) ==
    \E n \in 1..(FirstBad(data, allow_money, allow_dap) - 1) :
        ValueUpTo(data, n) > U128Max

\* Every payload is allowed and the total fits a u128.
Sound(data, allow_money, allow_dap) ==
    /\ FirstBad(data, allow_money, allow_dap) = Len(data) + 1
    /\ TotalOf(data) <= U128Max

MintCalled == call.fn = "Tux0Mint"

TransferCalled == call.fn = "Tux0Transfer"

\* The mint is well typed, its input sum fits, and the inputs cover one unit
\* for each output.
MintAcceptable ==
    /\ \A i \in 1..Len(call.input_data) : IsCoin(call.input_data[i])
    /\ \A i \in 1..Len(call.output_data) : IsDap(call.output_data[i])
    /\ TotalOf(call.input_data) <= U128Max
    /\ TotalOf(call.input_data) >= Len(call.output_data)

\* C14: Tux0Mint.check accepts exactly when every input is a Coin<0>, every
\* output is a DAPCoin<0>, the input sum does not overflow and the input
\* total is at least the number of outputs, whatever the peeks; a mint with
\* no outputs is accepted with the input sum as its priority.
C14_MintAcceptsWithInputSumPriority ==
    MintCalled =>
        /\ call.ret.kind = "Ok" <=> MintAcceptable
        /\ (MintAcceptable /\ call.output_data = << >>)
              => call.ret.value = TotalOf(call.input_data)

\* C14 amended: Tux0Mint.check accepts exactly when every input is a
\* Coin<0>, every output is a DAPCoin<0>, the input sum does not overflow
\* and the input total is at least the number of outputs, whatever the
\* peeks; a mint with no outputs is accepted, its priority the input sum
\* or, when that is larger, the largest TransactionPriority.
C14_MintAccepts ==
    MintCalled =>
        /\ call.ret.kind = "Ok" <=> MintAcceptable
        /\ (MintAcceptable /\ call.output_data = << >>)
              => call.ret.value =
                    IF TotalOf(call.input_data) > U64Max THEN U64Max
                    ELSE TotalOf(call.input_data)

\* C14 happens: a mint with inputs, peeks and no outputs was accepted, its
\* input sum larger than any TransactionPriority.
C14_Witness ==
    /\ MintCalled
    /\ call.ret.kind = "Ok"
    /\ call.output_data = << >>
    /\ call.peeks # << >>
    /\ TotalOf(call.input_data) > U64Max

\* C15: whenever Tux0Mint or Tux0Transfer accepts, the priority is the
\* input total minus the output total.
C15_PriorityIsDifference ==
    (call.fn \in { "Tux0Mint", "Tux0Transfer" } /\ call.ret.kind = "Ok")
        => call.ret.value = TotalOf(call.input_data) - TotalOf(call.output_data)

\* C15 amended: whenever Tux0Mint or Tux0Transfer accepts, the priority is
\* the input total minus the output total when that fits a
\* TransactionPriority (a u64), and the largest TransactionPriority when it
\* does not.
C15_PriorityIsSaturatedDifference ==
    (call.fn \in { "Tux0Mint", "Tux0Transfer" } /\ call.ret.kind = "Ok")
        => LET difference == TotalOf(call.input_data)
                                - TotalOf(call.output_data)
           IN  call.ret.value =
                  IF difference > U64Max THEN U64Max ELSE difference

\* C15 happens: a transaction with outputs was accepted with a difference
\* that no TransactionPriority holds.
C15_Witness ==
    /\ call.fn \in { "Tux0Mint", "Tux0Transfer" }
    /\ call.ret.kind = "Ok"
    /\ call.output_data # << >>
    /\ TotalOf(call.input_data) - TotalOf(call.output_data) > U64Max

\* C16: Tux0Mint.check returns OutputsExceedInputs whenever all inputs are
\* Coin<0>, all outputs are DAPCoin<0>, no sum overflows and the input total
\* is less than the number of outputs.
C16_MintOutputsExceedInputs ==
    ( /\ MintCalled
      /\ Sound(call.input_data, TRUE, FALSE)
      /\ Sound(call.output_data, FALSE, TRUE)
      /\ TotalOf(call.input_data) < Len(call.output_data) )
        => call.ret = Err("OutputsExceedInputs")

\* C16 happens: a mint with no inputs and an output was refused.
C16_Witness ==
    /\ MintCalled
    /\ call.input_data = << >>
    /\ call.output_data # << >>
    /\ call.ret = Err("OutputsExceedInputs")

\* C17: Tux0Mint.check returns BadlyTyped whenever an input is not a
\* Coin<0> or an output is not a DAPCoin<0>, unless the scan (the inputs in
\* order, then the outputs in order) meets an overflow before it.
C17_MintBadlyTyped ==
    ( /\ MintCalled
      /\ \/ /\ FirstBad(call.input_data, TRUE, FALSE) <= Len(call.input_data)
            /\ ~Overflows(call.input_data, TRUE, FALSE)
         \/ /\ Sound(call.input_data, TRUE, FALSE)
            /\ FirstBad(call.output_data, FALSE, TRUE) <= Len(call.output_data)
            /\ ~Overflows(call.output_data, FALSE, TRUE) )
        => call.ret = Err("BadlyTyped")

\* C17 happens: a mint whose coins cover its outputs was refused for a
\* Coin<0> among the outputs.
C17_Witness ==
    /\ MintCalled
    /\ call.ret = Err("BadlyTyped")
    /\ Sound(call.input_data, TRUE, FALSE)
    /\ \E i \in 1..Len(call.output_data) : IsCoin(call.output_data[i])
    /\ \E i \in 1..Len(call.output_data) : IsDap(call.output_data[i])
    /\ TotalOf(call.input_data) >= Len(call.output_data)

\* The transfer is well typed, no sum overflows, and the inputs cover the
\* outputs.
TransferAcceptable ==
    /\ \A i \in 1..Len(call.input_data) : IsDap(call.input_data[i])
    /\ \A i \in 1..Len(call.output_data) :
          IsCoin(call.output_data[i]) \/ IsDap(call.output_data[i])
    /\ Len(call.input_data) <= U128Max
    /\ TotalOf(call.output_data) <= U128Max
    /\ Len(call.input_data) >= TotalOf(call.output_data)

\* C18: Tux0Transfer.check accepts exactly when every input is a
\* DAPCoin<0>, every output is a Coin<0> or a DAPCoin<0>, no sum overflows
\* and the number of inputs is at least the output coin values plus the
\* number of output DAPCoins; a Coin<0> among the inputs gives BadlyTyped,
\* and well-typed outputs in excess of the inputs give OutputsExceedInputs.
C18_TransferAccepts ==
    TransferCalled =>
        /\ call.ret.kind = "Ok" <=> TransferAcceptable
        /\ (\E i \in 1..Len(call.input_data) : IsCoin(call.input_data[i]))
              => call.ret = Err("BadlyTyped")
        /\ ( /\ Sound(call.input_data, FALSE, TRUE)
             /\ Sound(call.output_data, TRUE, TRUE)
             /\ Len(call.input_data) < TotalOf(call.output_data) )
              => call.ret = Err("OutputsExceedInputs")

\* C18 happens: a transfer of two DAPCoins into a Coin<0> and a DAPCoin<0>
\* was accepted.
C18_Witness ==
    /\ TransferCalled
    /\ call.ret.kind = "Ok"
    /\ Len(call.input_data) = 2
    /\ \E i \in 1..Len(call.output_data) :
          IsCoin(call.output_data[i]) /\ call.output_data[i].data > 0
    /\ \E i \in 1..Len(call.output_data) : IsDap(call.output_data[i])

\* The payload kinds each checker allows among its inputs and its outputs.
MoneyIn == call.fn = "Tux0Mint"

DapIn == call.fn = "Tux0Transfer"

MoneyOut == call.fn = "Tux0Transfer"

\* C19: when the running sum of a side would exceed u128::MAX, the checker
\* returns ValueOverflow (the scan not having met a payload of a wrong kind
\* before), and a transaction is accepted only with both totals in range.
C19_TotalsNeverWrap ==
    call.fn \in { "Tux0Mint", "Tux0Transfer" } =>
        /\ ( \/ Overflows(call.input_data, MoneyIn, DapIn)
             \/ /\ Sound(call.input_data, MoneyIn, DapIn)
                /\ Overflows(call.output_data, MoneyOut, TRUE) )
              => call.ret = Err("ValueOverflow")
        /\ call.ret.kind = "Ok" =>
              /\ TotalOf(call.input_data) <= U128Max
              /\ TotalOf(call.output_data) <= U128Max
              /\ TotalOf(call.input_data) >= TotalOf(call.output_data)

\* C19 happens: inputs Coin(u128::MAX) and Coin(1) were refused with
\* ValueOverflow.
C19_Witness ==
    /\ MintCalled
    /\ call.input_data = << Data("coi0", U128Max), Data("coi0", 1) >>
    /\ call.ret = Err("ValueOverflow")

\* C22: the DummyParachainInfo constraint checker accepts every combination
\* of inputs, peeks and outputs with priority 0 and never returns an error.
C22_DummyAcceptsWithPriorityZero ==
    call.fn = "DummyParachainInfo" => call.ret = Ok(0)

\* The dummy checker accepted data that neither Tux0 checker accepts: a
\* value that is no coin consumed, and nothing created.
C22_Witness ==
    /\ call.fn = "DummyParachainInfo"
    /\ call.ret = Ok(0)
    /\ \E i \in 1..Len(call.input_data) :
           extract_coin(call.input_data[i]).kind = "Err"
    /\ call.output_data = << >>
    /\ call.peeks # << >>

(***************************************************************************)
(* Tux0TransferVerifier::verify.  A public key or a secret is a number, 0  *)
(* the bytes that are no point of the curve.  The executive calls verify   *)
(* once for each input, with the transaction whose redeemers are emptied   *)
(* and the redeemer of that input.                                         *)
(***************************************************************************)
\* ecies_ed25519::PublicKey::from_bytes is Ok.
IsPublicKey(pubkey) == pubkey # 0

\* ecies_ed25519::encrypt(&pubkey, &secret, &mut MockRng {}): with the
\* all-zero source of randomness the ciphertext is a function of the key
\* and the message, and it opens to the message under that key alone.
encrypt(pubkey, secret) == << pubkey, secret >>

SpendData(pubkey, secret, utxo_ref) ==
    [decodes |-> TRUE, pubkey |-> pubkey, secret |-> secret,
     utxo_ref |-> utxo_ref]

\* Redeemer bytes that do not decode as SpendData.
NoSpendData ==
    [decodes |-> FALSE, pubkey |-> 0, secret |-> 0, utxo_ref |-> Ref("tg", 0)]

\* The transaction with every redeemer emptied, as the executive encodes it
\* for the verifiers.
simplified(tx) ==
    [tx EXCEPT !.inputs = [i \in 1..Len(tx.inputs) |->
                             [tx.inputs[i] EXCEPT !.redeemer = NoSpendData]]]

\* Transaction::<Self, Tux0Transfer<ID>>::decode is Ok.
DecodesAsTransfer(tx) == tx.checker = "Tux0Transfer"

\* TransparentUtxoSet::peek_utxo
peek_utxo(utxo_set, output_ref) == utxo_set[output_ref]

\* verify with the search for the named input left out.
verify_any_output(utxo_set, simplified_tx, redeemer) ==
    IF ~DecodesAsTransfer(simplified_tx) THEN "false"
    ELSE IF ~redeemer.decodes THEN "false"
    ELSE IF ~IsPublicKey(redeemer.pubkey) THEN "false"
    ELSE IF redeemer.utxo_ref \notin DOMAIN utxo_set THEN "panic"
    ELSE IF encrypt(redeemer.pubkey, redeemer.secret)
              = peek_utxo(utxo_set, redeemer.utxo_ref).payload.data
           THEN "true" ELSE "false"

\* The outcome of verify: the bool it returns, or "panic" when the expect
\* on peek_utxo finds no such output in the UTXO set.
verify(utxo_set, simplified_tx, redeemer) ==
    IF ~DecodesAsTransfer(simplified_tx) THEN "false"
    ELSE IF ~redeemer.decodes THEN "false"
    ELSE LET spend_data == redeemer
         IN  IF ~ \E i \in 1..Len(simplified_tx.inputs) :
                     simplified_tx.inputs[i].output_ref = spend_data.utxo_ref
               THEN "false"
             ELSE IF ~IsPublicKey(spend_data.pubkey) THEN "false"
             ELSE IF spend_data.utxo_ref \notin DOMAIN utxo_set THEN "panic"
             ELSE IF encrypt(spend_data.pubkey, spend_data.secret)
                       = peek_utxo(utxo_set, spend_data.utxo_ref).payload.data
                    THEN "true" ELSE "false"

\* The DAPCoin outputs of the UTXO set and what a transaction is built of.
DapRefs == { Ref("t1", 0), Ref("t1", 1) }

Keys == { 1, 2 }

Commitments == { encrypt(pubkey, secret) : pubkey \in Keys, secret \in Keys }

UtxoSets ==
    UNION { [D -> { Out(Tux0TransferVerifier, Data("dap0", c)) :
                      c \in Commitments }] : D \in SUBSET DapRefs }

Redeemers ==
    { SpendData(pubkey, secret, utxo_ref) :
        pubkey \in Keys \cup { 0 }, secret \in Keys, utxo_ref \in DapRefs }
      \cup { NoSpendData }

\* The input lists: one or both outputs, each spent at most once.
InputLists ==
    { ins \in UNION { [1..n -> [output_ref : DapRefs, redeemer : Redeemers]] :
                        n \in 1..2 } :
        \A i, j \in 1..Len(ins) :
            ins[i].output_ref = ins[j].output_ref => i = j }

InitVerifier ==
    /\ block_hashes = EmptyMap
    /\ blocks = EmptyMap
    /\ unspent = EmptyMap
    /\ spent = EmptyMap
    /\ pc = "idle"
    /\ result = "none"
    /\ l = NoLocals
    /\ node = << "G" >>
    /\ filter = "keys"
    /\ gh = NoHistory
    /\ observed = NoObservation
    /\ call \in [fn : { "none" }, utxo_set : UtxoSets,
                 transaction : [inputs : InputLists, outputs : { << >> },
                                checker : { "Tux0Transfer", "Tux0Mint" }]]
    /\ engine = NoEngine

\* The executive has the verifier of one input's output look at that
\* input's redeemer.
Verify ==
    /\ call.fn = "none"
    /\ \E i \in 1..Len(call.transaction.inputs) :
         /\ call.transaction.inputs[i].output_ref \in DOMAIN call.utxo_set
         /\ call' = [fn |-> "verify", utxo_set |-> call.utxo_set,
                     transaction |-> call.transaction, input |-> i,
                     ret |-> verify(call.utxo_set,
                                    simplified(call.transaction),
                                    call.transaction.inputs[i].redeemer)]
    /\ UNCHANGED << db, pc, result, l, node, filter, gh, observed, engine >>

NextVerifier == Verify

SpecVerifier == InitVerifier /\ [][NextVerifier]_vars

\* C20: Tux0TransferVerifier authorizes the spend of an input only if the
\* input's redeemer reveals a public key and a secret whose encryption is
\* the stored payload of the output that this input spends.
C20_RedeemerOpensItsOwnInput ==
    (call.fn = "verify" /\ call.ret = "true") =>
        LET input == call.transaction.inputs[call.input]
        IN  /\ input.redeemer.decodes
            /\ encrypt(input.redeemer.pubkey, input.redeemer.secret)
                  = peek_utxo(call.utxo_set, input.output_ref).payload.data

\* The redeemer verify was given and the transaction it was given.
Redeemer == call.transaction.inputs[call.input].redeemer

NamesAnInput ==
    \E i \in 1..Len(call.transaction.inputs) :
        call.transaction.inputs[i].output_ref = Redeemer.utxo_ref

\* C21: verify returns false, and does not fail, whenever the preimage does
\* not decode as a Tux0Transfer transaction, the redeemer does not decode as
\* SpendData, the named utxo_ref is the OutputRef of no input of the
\* transaction, or the pubkey bytes are no valid public key.
C21_VerifyRejectsWithoutFailing ==
    (/\ call.fn = "verify"
     /\ \/ ~DecodesAsTransfer(call.transaction)
        \/ ~Redeemer.decodes
        \/ ~NamesAnInput
        \/ ~IsPublicKey(Redeemer.pubkey))
        => call.ret = "false"

\* The redeemer opens an output of the UTXO set that is no input of the
\* transaction: only the search of the inputs rejects it.
C21_Witness ==
    /\ call.fn = "verify"
    /\ DecodesAsTransfer(call.transaction)
    /\ Redeemer.decodes
    /\ IsPublicKey(Redeemer.pubkey)
    /\ ~NamesAnInput
    /\ Redeemer.utxo_ref \in DOMAIN call.utxo_set
    /\ encrypt(Redeemer.pubkey, Redeemer.secret)
          = peek_utxo(call.utxo_set, Redeemer.utxo_ref).payload.data
    /\ call.ret = "false"

(***************************************************************************)
(* The Executive and its UTXO set.  The template runtime hands blocks and  *)
(* extrinsics to Executive::execute_block and Executive::apply_extrinsic;  *)
(* the validation and the application follow the design of the engine:     *)
(* structure, lookup, verification, constraint check, then the inputs are  *)
(* removed and the outputs inserted.                                       *)
(***************************************************************************)
MaxEngineBlocks == 2

MaxBodyLen == 2

EInput(output_ref, redeemer) == [output_ref |-> output_ref, redeemer |-> redeemer]

ETx(ins, peeks, outs, checker) ==
    [inputs |-> ins, peeks |-> peeks, outputs |-> outs, checker |-> checker]

\* The inherent transaction the Executive makes for block n: its content
\* depends on the block's inherent data.
InherentHash(n) == << "inherent", n >>

\* The hashes of the transactions a block author or a user may submit.
SubmittedHashes == { << "x", k >> : k \in 1..8 }

\* The engine's transactions, by transaction hash.
EngineTx(h) ==
    CASE h[1] = "inherent" ->
           ETx(<< >>, << >>,
               << Out(UpForGrabs, Coin0(2)), Out(SigCheck("alice"), Coin0(1)) >>,
               "Inherent")
      [] h = << "x", 1 >> ->
           ETx(<< EInput(Ref(InherentHash(1), 0), "none") >>, << >>,
               << Out(UpForGrabs, Coin0(2)) >>, "Money")
      [] h = << "x", 2 >> ->
           ETx(<< EInput(Ref(InherentHash(1), 0), "none") >>, << >>,
               << Out(SigCheck("bob"), Coin0(1)) >>, "Money")
      [] h = << "x", 3 >> ->
           ETx(<< EInput(Ref(<< "x", 1 >>, 0), "none") >>, << >>,
               << Out(UpForGrabs, Coin0(1)), Out(UpForGrabs, Coin0(1)) >>,
               "Money")
      [] h = << "x", 4 >> ->
           ETx(<< EInput(Ref(InherentHash(1), 1), "bob") >>, << >>,
               << Out(SigCheck("bob"), Coin0(1)) >>, "Money")
      [] h = << "x", 5 >> ->
           ETx(<< EInput(Ref(InherentHash(1), 1), "alice") >>, << >>,
               << Out(SigCheck("bob"), Coin0(3)) >>, "Money")
      [] h = << "x", 6 >> ->
           ETx(<< EInput(Ref(InherentHash(2), 0), "none"),
                  EInput(Ref(InherentHash(2), 0), "none") >>, << >>,
               << Out(UpForGrabs, Coin0(4)) >>, "Money")
      [] h = << "x", 7 >> ->
           ETx(<< EInput(Ref(InherentHash(1), 1), "alice") >>,
               << Ref(<< "x", 1 >>, 0) >>,
               << Out(UpForGrabs, Coin0(1)) >>, "Money")
      [] h = << "x", 8 >> ->
           ETx(<< >>, << >>, << Out(UpForGrabs, Coin0(1)) >>, "Money")

\* The verifier stored with an output votes on the redeemer: a signature
\* check accepts the owner's signature, anyone may take what is up for grabs.
Vote(verifier, redeemer) ==
    \/ verifier.kind = "UpForGrabs"
    \/ verifier.kind = "SigCheck" /\ redeemer = verifier.owner_pubkey

RECURSIVE SumOfOutputs(_)
SumOfOutputs(outs) ==
    IF outs = << >> THEN 0
    ELSE outs[1].payload.amount + SumOfOutputs(Tail(outs))

Distinct(seq) == \A i, j \in 1..Len(seq) : seq[i] = seq[j] => i = j

InputRefs(tx) == [i \in 1..Len(tx.inputs) |-> tx.inputs[i].output_ref]

OutputRefs(h) == { Ref(h, i - 1) : i \in 1..Len(EngineTx(h).outputs) }

\* The constraint checkers of the engine's transactions: Money conserves
\* value, an inherent may materialize it.
check(utxo, tx) ==
    IF tx.checker = "Inherent" THEN "Ok"
    ELSE IF SumOfOutputs([i \in 1..Len(tx.inputs) |->
                            utxo[tx.inputs[i].output_ref]])
              >= SumOfOutputs(tx.outputs)
           THEN "Ok" ELSE "OutputsExceedInputs"

\* The validation with the lookup of the inputs left out: an input that is
\* not in the UTXO set counts for nothing.
validate_transaction_no_lookup(utxo, h) ==
    LET tx == EngineTx(h)
        found == SelectSeq(tx.inputs, LAMBDA i : Has(utxo, i.output_ref))
    IN  IF ~Distinct(InputRefs(tx)) THEN "DuplicateInput"
        ELSE IF tx.checker # "Inherent" /\ tx.inputs = << >> THEN "NoInputs"
        ELSE IF \E i \in 1..Len(tx.peeks) : ~Has(utxo, tx.peeks[i])
               THEN "MissingPeek"
        ELSE IF \E i \in 1..Len(found) :
                   ~Vote(utxo[found[i].output_ref].verifier, found[i].redeemer)
               THEN "UnauthorizedSpend"
        ELSE IF \E r \in OutputRefs(h) : Has(utxo, r) THEN "DuplicateOutputRef"
        ELSE "Ok"

\* validate_transaction in block context: "Ok" or the error.
validate_transaction(utxo, h) ==
    LET tx == EngineTx(h)
    IN  IF ~Distinct(InputRefs(tx)) THEN "DuplicateInput"
        ELSE IF \/ ~Distinct(tx.peeks)
                \/ \E i \in 1..Len(tx.peeks), j \in 1..Len(tx.inputs) :
                       tx.peeks[i] = tx.inputs[j].output_ref
               THEN "DuplicatePeek"
        ELSE IF tx.checker # "Inherent" /\ tx.inputs = << >> THEN "NoInputs"
        ELSE IF tx.checker # "Inherent" /\ tx.outputs = << >> THEN "NoOutputs"
        ELSE IF \E i \in 1..Len(tx.peeks) : ~Has(utxo, tx.peeks[i])
               THEN "MissingPeek"
        ELSE IF \E i \in 1..Len(tx.inputs) : ~Has(utxo, tx.inputs[i].output_ref)
               THEN "MissingInput"
        ELSE IF \E i \in 1..Len(tx.inputs) :
                   ~Vote(utxo[tx.inputs[i].output_ref].verifier,
                         tx.inputs[i].redeemer)
               THEN "UnauthorizedSpend"
        ELSE IF check(utxo, tx) # "Ok" THEN check(utxo, tx)
        ELSE IF \E r \in OutputRefs(h) : Has(utxo, r) THEN "DuplicateOutputRef"
        ELSE "Ok"

RECURSIVE ConsumeInputs(_, _)
ConsumeInputs(utxo, ins) ==
    IF ins = << >> THEN utxo
    ELSE ConsumeInputs(Del(utxo, ins[1].output_ref), Tail(ins))

RECURSIVE InsertNewOutputs(_, _, _, _)
InsertNewOutputs(utxo, h, outs, i) ==
    IF i > Len(outs) THEN utxo
    ELSE InsertNewOutputs(Put(utxo, Ref(h, i - 1), outs[i]), h, outs, i + 1)

\* The state transition of a valid transaction: each input is removed, each
\* output is inserted under (hash of the transaction, its position).
update_storage(utxo, h) ==
    InsertNewOutputs(ConsumeInputs(utxo, EngineTx(h).inputs), h,
                     EngineTx(h).outputs, 1)

\* What a run of transactions leaves: the verdict, the UTXO set, and the
\* references it consumed and inserted, in order.
Scope(utxo) ==
    [verdict |-> "Ok", utxo |-> utxo, consumed |-> << >>, inserted |-> << >>]

apply_tuxedo_transaction(sc, h) ==
    LET v == validate_transaction(sc.utxo, h)
    IN  IF sc.verdict # "Ok" THEN sc
        ELSE IF v # "Ok" THEN [sc EXCEPT !.verdict = v]
        ELSE [verdict |-> "Ok",
              utxo |-> update_storage(sc.utxo, h),
              consumed |-> sc.consumed \o InputRefs(EngineTx(h)),
              inserted |-> sc.inserted \o
                  [i \in 1..Len(EngineTx(h).outputs) |-> Ref(h, i - 1)]]

RECURSIVE apply_all(_, _)
apply_all(sc, hs) ==
    IF hs = << >> THEN sc
    ELSE apply_all(apply_tuxedo_transaction(sc, hs[1]), Tail(hs))

\* A block application that keeps what the transactions before the failing
\* one have written.
execute_block_keeping(utxo, hs) == apply_all(Scope(utxo), hs)

\* Executive::execute_block: the transactions in list order in one atomic
\* scope; a failure rejects the block and nothing of it is kept.
execute_block(utxo, hs) ==
    LET sc == apply_all(Scope(utxo), hs)
    IN  IF sc.verdict = "Ok" THEN sc
        ELSE [Scope(utxo) EXCEPT !.verdict = sc.verdict]

\* Executive::apply_extrinsic: one transaction, validated in block context.
apply_extrinsic(utxo, h) == apply_tuxedo_transaction(Scope(utxo), h)

\* The bodies a block may have.
Bodies ==
    UNION { [1..n -> SubmittedHashes] : n \in 0..MaxBodyLen }

Committed(sc, hs) ==
    [utxo |-> sc.utxo, number |-> engine.number, verdict |-> sc.verdict,
     pre |-> engine.utxo, body |-> hs,
     consumed |-> engine.consumed \o sc.consumed,
     inserted |-> engine.inserted \o sc.inserted]

ApplyExtrinsic ==
    /\ \E h \in SubmittedHashes :
         engine' = Committed(apply_extrinsic(engine.utxo, h), << h >>)
    /\ UNCHANGED << db, pc, result, l, node, filter, gh, observed, call >>

\* A block is its inherent followed by its body.
ExecuteBlock ==
    /\ engine.number < MaxEngineBlocks
    /\ \E body \in Bodies :
         LET hs == << InherentHash(engine.number + 1) >> \o body
             sc == execute_block(engine.utxo, hs)
         IN  engine' = [Committed(sc, hs) EXCEPT
                          !.number = IF sc.verdict = "Ok"
                                       THEN engine.number + 1
                                       ELSE engine.number]
    /\ UNCHANGED << db, pc, result, l, node, filter, gh, observed, call >>

InitEngine ==
    /\ block_hashes = EmptyMap
    /\ blocks = EmptyMap
    /\ unspent = EmptyMap
    /\ spent = EmptyMap
    /\ pc = "idle"
    /\ result = "none"
    /\ l = NoLocals
    /\ node = << "G" >>
    /\ filter = "keys"
    /\ gh = NoHistory
    /\ observed = NoObservation
    /\ call = NoCall
    /\ engine = NoEngine

NextEngine ==
    \/ ApplyExtrinsic
    \/ ExecuteBlock

SpecEngine == InitEngine /\ [][NextEngine]_vars

\* The UTXO set in front of the k-th transaction of the last block or
\* extrinsic, as the transactions before it left it.
Before(k) == apply_all(Scope(engine.pre), SubSeq(engine.body, 1, k - 1))

MissesAnInput(utxo, h) ==
    \E i \in 1..Len(EngineTx(h).inputs) :
        ~Has(utxo, EngineTx(h).inputs[i].output_ref)

\* C23: over any sequence of transactions applied through the Executive an
\* OutputRef is inserted into the UTXO set at most once and consumed at most
\* once, and a transaction with an input whose OutputRef is not in the set
\* when its turn comes is rejected.
C23_NoDoubleSpend ==
    /\ Distinct(engine.inserted)
    /\ Distinct(engine.consumed)
    /\ \A k \in 1..Len(engine.body) :
         (Before(k).verdict = "Ok" /\ MissesAnInput(Before(k).utxo, engine.body[k]))
            => (engine.verdict # "Ok" /\ engine.utxo = engine.pre)

\* A second spend of an output that an earlier transaction consumed is
\* rejected, and so is a spend of an output that does not exist yet.
C23_Witness ==
    /\ engine.verdict = "MissingInput"
    /\ engine.utxo = engine.pre
    /\ engine.consumed # << >>
    /\ \E k \in 1..Len(engine.body) :
         /\ Before(k).verdict = "Ok"
         /\ \E i \in 1..Len(EngineTx(engine.body[k]).inputs) :
              LET r == EngineTx(engine.body[k]).inputs[i].output_ref
              IN  /\ ~Has(Before(k).utxo, r)
                  /\ \E j \in 1..Len(engine.consumed) : engine.consumed[j] = r

\* The last step was a block: its inherent and its body.
IsBlock == engine.body # << >> /\ engine.body[1][1] = "inherent"

FailsAt(k) ==
    /\ Before(k).verdict = "Ok"
    /\ validate_transaction(Before(k).utxo, engine.body[k]) # "Ok"

ConsumedFrom(k) ==
    UNION { { EngineTx(engine.body[j]).inputs[i].output_ref :
                i \in 1..Len(EngineTx(engine.body[j]).inputs) } :
            j \in k..Len(engine.body) }

\* C24: a block with a transaction that fails validation at its turn is
\* rejected and the UTXO set is what it was before the block; otherwise all
\* its transactions are committed in list order: what they consume is gone,
\* what they create is there unless a later transaction of the block has
\* consumed it, and every other output is untouched.
C24_BlockApplicationIsAtomic ==
    IsBlock =>
        IF \E k \in 1..Len(engine.body) : FailsAt(k)
          THEN /\ engine.verdict # "Ok"
               /\ engine.utxo = engine.pre
          ELSE /\ engine.verdict = "Ok"
               /\ \A r \in ConsumedFrom(1) :
                      ~Has(engine.utxo, r)
               /\ \A k \in 1..Len(engine.body) :
                    \A i \in 1..Len(EngineTx(engine.body[k]).outputs) :
                      LET r == Ref(engine.body[k], i - 1)
                      IN  IF r \in ConsumedFrom(k + 1)
                            THEN ~Has(engine.utxo, r)
                            ELSE /\ Has(engine.utxo, r)
                                 /\ engine.utxo[r] = EngineTx(engine.body[k]).outputs[i]
               /\ \A r \in DOMAIN engine.pre \ ConsumedFrom(1) :
                      Has(engine.utxo, r) /\ engine.utxo[r] = engine.pre[r]
               /\ \A r \in DOMAIN engine.utxo :
                      \/ Has(engine.pre, r)
                      \/ \E k \in 1..Len(engine.body) : r \in OutputRefs(engine.body[k])

\* A block is rejected at its third transaction, after the second one had
\* consumed an output and created another.
C24_Witness ==
    /\ IsBlock
    /\ engine.verdict # "Ok"
    /\ engine.utxo = engine.pre
    /\ \E k \in 2..Len(engine.body) :
         /\ FailsAt(k)
         /\ Before(k).consumed # << >>
         /\ Before(k).utxo # engine.pre
=============================================================================
